---- MODULE Spec2Model ----
(***************************************************************************)
(* Agent Context Explorer: the shared scanning core (directory walkers,    *)
(* parsers, scan orchestrators) and the two hosts' projections of it.      *)
(*                                                                         *)
(* Text is a sequence of lexemes (single characters, or whole words where  *)
(* no operation looks inside the word); a document is a sequence of lines  *)
(* (the result of text.split('\n')); a path is a sequence of names.        *)
(***************************************************************************)
EXTENDS Integers, Sequences, FiniteSets, TLC

VARIABLES
    fs,        \* the filesystem behind IFileSystem (a tree of nodes)
    op,        \* the operation whose result is in out ("none" before any)
    arg,       \* the argument that operation was called with
    out,       \* the value the operation resolved to
    lines,     \* input of parseSections
    sections,  \* result of parseSections on lines
    calls      \* in-flight scan calls of the asynchronous model

vars == <<fs, op, arg, out, lines, sections, calls>>

-----------------------------------------------------------------------------
(* Results of operations that may throw / promises that may reject.        *)

Ok(v) == [ok |-> TRUE, v |-> v]
Err == [ok |-> FALSE]

-----------------------------------------------------------------------------
(* Strings.                                                                *)

UpperChars == <<"A", "B", "C", "D", "E", "F", "G", "H", "I", "J", "K", "L", "M",
                "N", "O", "P", "Q", "R", "S", "T", "U", "V", "W", "X", "Y", "Z">>
LowerChars == <<"a", "b", "c", "d", "e", "f", "g", "h", "i", "j", "k", "l", "m",
                "n", "o", "p", "q", "r", "s", "t", "u", "v", "w", "x", "y", "z">>

toLowerCaseChar(c) ==
    IF \E i \in 1..Len(UpperChars) : UpperChars[i] = c
    THEN LowerChars[CHOOSE i \in 1..Len(UpperChars) : UpperChars[i] = c]
    ELSE c

toLowerCase(s) == [i \in 1..Len(s) |-> toLowerCaseChar(s[i])]

startsWith(s, prefix) ==
    Len(s) >= Len(prefix) /\ SubSeq(s, 1, Len(prefix)) = prefix

endsWith(s, suffix) ==
    Len(s) >= Len(suffix) /\ SubSeq(s, Len(s) - Len(suffix) + 1, Len(s)) = suffix

includes(seq, x) == \E i \in 1..Len(seq) : seq[i] = x

\* Array.prototype.find: the first element satisfying the test, or absent.
FirstIndex(seq, Test(_)) ==
    IF \E i \in 1..Len(seq) : Test(seq[i])
    THEN CHOOSE i \in 1..Len(seq) : Test(seq[i]) /\ \A j \in 1..(i - 1) : ~Test(seq[j])
    ELSE 0

\* Names used by the scanners.
N_cursor == <<".", "c", "u", "r", "s", "o", "r">>
N_rules == <<"r", "u", "l", "e", "s">>
N_commands == <<"c", "o", "m", "m", "a", "n", "d", "s">>
N_skills == <<"s", "k", "i", "l", "l", "s">>
N_SKILL_md == <<"S", "K", "I", "L", "L", ".", "m", "d">>
N_AGENTS_md == <<"A", "G", "E", "N", "T", "S", ".", "m", "d">>
N_README_md == <<"R", "E", "A", "D", "M", "E", ".", "m", "d">>
N_specs == <<"s", "p", "e", "c", "s">>
N_schemas == <<"s", "c", "h", "e", "m", "a", "s">>
N_spec_md == <<"s", "p", "e", "c", ".", "m", "d">>
N_proj == <<"p", "r", "o", "j">>
N_home == <<"h", "o", "m", "e">>
Dot == <<".">>
DotDot == <<".", ".">>
Ext_mdc == <<".", "m", "d", "c">>
Ext_md == <<".", "m", "d">>
Ext_json == <<".", "j", "s", "o", "n">>

-----------------------------------------------------------------------------
(* path (Node's posix path module), on paths as sequences of names.        *)

\* path.join(dir, name): joins and normalizes, so "." stays in dir and ".."
\* leaves it.
join(dirPath, name) ==
    IF name = Dot THEN dirPath
    ELSE IF name = DotDot
         THEN (IF Len(dirPath) = 0 THEN dirPath ELSE SubSeq(dirPath, 1, Len(dirPath) - 1))
         ELSE Append(dirPath, name)

LastDot(name) ==
    IF \E i \in 1..Len(name) : name[i] = "."
    THEN CHOOSE i \in 1..Len(name) : name[i] = "." /\ \A j \in (i + 1)..Len(name) : name[j] # "."
    ELSE 0

\* path.extname(name): from the last "." on; empty when there is no ".", when
\* the only "." is the first character, and for "..".
extname(name) ==
    LET d == LastDot(name)
    IN  IF d = 0 \/ d = 1 \/ (name[1] = "." /\ d = Len(name) /\ d = 2)
        THEN <<>>
        ELSE SubSeq(name, d, Len(name))

\* path.basename(p)
basename(p) == IF Len(p) = 0 THEN <<>> ELSE p[Len(p)]

\* path.basename(p, ext): the suffix is removed by exact (case-sensitive)
\* comparison, and never when it is the whole name.
basenameExt(p, ext) ==
    LET b == basename(p)
    IN  IF endsWith(b, ext) /\ Len(b) > Len(ext)
        THEN SubSeq(b, 1, Len(b) - Len(ext))
        ELSE b

\* The workspace path the hosts scan, and os.homedir().
ProjectRoot == <<N_proj>>
UserRoot == <<N_home>>

-----------------------------------------------------------------------------
(* Filesystem: FileType and IFileSystem over a tree.                       *)
(* A node is [stat, read, list]: what stat, readFile and readDirectory     *)
(* answer at its path; each is Err when that operation fails there.  A     *)
(* listing is a sequence of entries [name, kind, node], kind being the     *)
(* type readDirectory reports for the entry.                               *)

FileType == [Unknown |-> 0, File |-> 1, Directory |-> 2, SymbolicLink |-> 64]

FileTypeValues == {FileType.Unknown, FileType.File, FileType.Directory, FileType.SymbolicLink}

Missing == [stat |-> Err, read |-> Err, list |-> Err]

RECURSIVE Resolve(_, _)
Resolve(node, p) ==
    IF Len(p) = 0 THEN node
    ELSE IF ~node.list.ok THEN Missing
    ELSE LET es == node.list.v
             hit == {i \in 1..Len(es) : es[i].name = Head(p)}
         IN  IF hit = {} THEN Missing
             ELSE Resolve(es[CHOOSE i \in hit : \A j \in hit : i <= j].node, Tail(p))

readFile(f, p) == Resolve(f, p).read

readDirectory(f, p) ==
    LET l == Resolve(f, p).list
    IN  IF l.ok THEN Ok([i \in 1..Len(l.v) |-> <<l.v[i].name, l.v[i].kind>>]) ELSE Err

stat(f, p) ==
    LET s == Resolve(f, p).stat
    IN  IF s.ok THEN Ok([type |-> s.v]) ELSE Err

-----------------------------------------------------------------------------
(* listFilesRecursive (src/unnamed/part_004, lines 13-48)                  *)

normalizeExtensions(extensions) ==
    [i \in 1..Len(extensions) |->
        IF startsWith(extensions[i], Dot)
        THEN toLowerCase(extensions[i])
        ELSE Dot \o toLowerCase(extensions[i])]

\* walk's test with symbolic links left out of it.
walkFile_FilesOnly(results, dirPath, name, fileType, normalizedExtensions) ==
    IF fileType = FileType.File /\ includes(normalizedExtensions, toLowerCase(extname(name)))
    THEN Append(results, join(dirPath, name))
    ELSE results

\* One entry of walk's loop that is not a directory: pushed when it is a
\* File or SymbolicLink with an allowed extension.
walkFile(results, dirPath, name, fileType, normalizedExtensions) ==
    IF (fileType = FileType.File \/ fileType = FileType.SymbolicLink)
       /\ includes(normalizedExtensions, toLowerCase(extname(name)))
    THEN Append(results, join(dirPath, name))
    ELSE results

\* walk's test for descending with symbolic links followed.
walkDescends_FollowLinks(fileType) ==
    fileType = FileType.Directory \/ fileType = FileType.SymbolicLink

\* Whether walk calls itself on the entry.
walkDescends(fileType) == fileType = FileType.Directory

\* Whether walk's loop passes over the entry.
walkSkips(name) == name = Dot \/ name = DotDot

\* walk without its catch: the rejection of readDirectory leaves walk.
walkCatch_Rethrow(results) == Err

\* What walk does when readDirectory rejects: the catch leaves results alone.
walkCatch(results) == Ok(results)

\* walk(dirPath): returns results after the walk of dirPath, Err if it throws.
RECURSIVE walk(_, _, _, _)
RECURSIVE walkLoop(_, _, _, _, _, _)
walk(f, dirPath, normalizedExtensions, results) ==
    LET r == readDirectory(f, dirPath)
    IN  IF ~r.ok THEN walkCatch(results)
        ELSE walkLoop(f, dirPath, normalizedExtensions, r.v, 1, results)

walkLoop(f, dirPath, normalizedExtensions, entries, i, results) ==
    IF i > Len(entries) THEN Ok(results)
    ELSE LET name == entries[i][1]
             fileType == entries[i][2]
         IN  IF walkSkips(name)
             THEN walkLoop(f, dirPath, normalizedExtensions, entries, i + 1, results)
             ELSE IF fileType = FileType.Directory
             THEN LET sub == walk(f, join(dirPath, name), normalizedExtensions, results)
                  IN  IF ~sub.ok THEN walkCatch(results)
                      ELSE walkLoop(f, dirPath, normalizedExtensions, entries, i + 1, sub.v)
             ELSE walkLoop(f, dirPath, normalizedExtensions, entries, i + 1,
                           walkFile(results, dirPath, name, fileType, normalizedExtensions))

listFilesRecursive(f, rootPath, extensions) ==
    walk(f, rootPath, normalizeExtensions(extensions), <<>>)

-----------------------------------------------------------------------------
(* Documents.  A text is the sequence of its lines (text.split('\n'), so   *)
(* never empty: the empty string is one empty line); a line is a sequence  *)
(* of lexemes.  JavaScript values carry their type.                        *)

EmptyText == << <<>> >>
DelimLine == <<"-", "-", "-">>

JStr(s) == [t |-> "string", v |-> s]        \* s: a sequence of lexemes
JText(text) == [t |-> "text", v |-> text]     \* a string held as its lines
JPath(p) == [t |-> "path", v |-> p]           \* a string that is a path
JBool(b) == [t |-> "boolean", v |-> b]
JArr(a) == [t |-> "array", v |-> a]
JNull == [t |-> "null"]
Undefined == [t |-> "undefined"]

\* JavaScript truthiness of a value.
Truthy(x) ==
    CASE x.t = "string" -> x.v # <<>>
      [] x.t = "text" -> x.v # EmptyText
      [] x.t = "path" -> x.v # <<>>
      [] x.t = "boolean" -> x.v
      [] x.t = "array" -> TRUE
      [] OTHER -> FALSE

\* a || b
OrElse(a, b) == IF Truthy(a) THEN a ELSE b

\* \s, and what trim() strips.
IsSpace(c) == c \in {" ", "\t", "\r", "\n"}

\* What "." of a regular expression does not match.
IsLineTerminator(c) == c \in {"\r", "\n"}

IsBlank(line) == \A i \in 1..Len(line) : IsSpace(line[i])

TrimStart(line) ==
    IF IsBlank(line) THEN <<>>
    ELSE SubSeq(line, CHOOSE i \in 1..Len(line) :
                        ~IsSpace(line[i]) /\ \A j \in 1..(i - 1) : IsSpace(line[j]),
                Len(line))

TrimEnd(line) ==
    IF IsBlank(line) THEN <<>>
    ELSE SubSeq(line, 1, CHOOSE i \in 1..Len(line) :
                        ~IsSpace(line[i]) /\ \A j \in (i + 1)..Len(line) : IsSpace(line[j]))

\* String.prototype.trim on one line.
trimLine(line) == TrimEnd(TrimStart(line))

\* String.prototype.trim on a text: leading and trailing blank lines go, and
\* so does the white space before the first and after the last character.
trim(text) ==
    IF \A i \in 1..Len(text) : IsBlank(text[i]) THEN EmptyText
    ELSE LET a == CHOOSE i \in 1..Len(text) :
                    ~IsBlank(text[i]) /\ \A j \in 1..(i - 1) : IsBlank(text[j])
             b == CHOOSE i \in 1..Len(text) :
                    ~IsBlank(text[i]) /\ \A j \in (i + 1)..Len(text) : IsBlank(text[j])
         IN  [i \in 1..(b - a + 1) |->
                LET l == text[a + i - 1]
                IN  IF i = 1 /\ i = b - a + 1 THEN trimLine(l)
                    ELSE IF i = 1 THEN TrimStart(l)
                    ELSE IF i = b - a + 1 THEN TrimEnd(l)
                    ELSE l]

\* A scalar of a YAML mapping line, typed as js-yaml types it.
YamlValue(lex) ==
    CASE lex = "true" -> JBool(TRUE)
      [] lex = "false" -> JBool(FALSE)
      [] lex = "~" -> JNull
      [] lex = "[]" -> JArr(<<>>)
      [] lex = "[*.ts]" -> JArr(<<"*.ts">>)
      [] lex = "''" -> JStr(<<>>)
      [] OTHER -> JStr(<<lex>>)

\* A line of a YAML block mapping: key, ":", " ", scalar.
IsYamlPair(line) ==
    Len(line) = 4 /\ line[2] = ":" /\ line[3] = " " /\ line[1] \notin {":", " ", "{", "-"}

\* The YAML block of a frontmatter: a mapping when every non-blank line is a
\* key-value pair and no key repeats; otherwise the parser throws.
YamlLoad(block) ==
    LET idx == {i \in 1..Len(block) : ~IsBlank(block[i])}
    IN  IF (\E i \in idx : ~IsYamlPair(block[i]))
           \/ (\E i, j \in idx : i # j /\ block[i][1] = block[j][1])
        THEN Err
        ELSE Ok([k \in {block[i][1] : i \in idx} |->
                    YamlValue(block[CHOOSE i \in idx : block[i][1] = k][4])])

\* gray-matter: a leading block between a first line "---" and the next line
\* "---" (or the end of the text) is the frontmatter; the rest is the content.
matter(text) ==
    IF text[1] # DelimLine
    THEN Ok([data |-> <<>>, content |-> text])
    ELSE LET close == IF \E j \in 2..Len(text) : text[j] = DelimLine
                      THEN CHOOSE j \in 2..Len(text) :
                             text[j] = DelimLine /\ \A k \in 2..(j - 1) : text[k] # DelimLine
                      ELSE Len(text) + 1
             y == YamlLoad(SubSeq(text, 2, close - 1))
             rest == SubSeq(text, close + 1, Len(text))
         IN  IF ~y.ok THEN Err
             ELSE Ok([data |-> y.v, content |-> IF rest = <<>> THEN EmptyText ELSE rest])

\* parsed.data.<key>
Field(data, key) == IF key \in DOMAIN data THEN data[key] ELSE Undefined

-----------------------------------------------------------------------------
(* parseRuleFromString (src/unnamed/part_004, lines 89-107)                *)

ErrorContent == << <<"Error reading file content">> >>

ErrorRule == [metadata |-> [description |-> JStr(<<"Error parsing file">>)],
              content |-> ErrorContent]

parseRuleFromString(text) ==
    LET parsed == matter(text)
    IN  IF ~parsed.ok THEN ErrorRule
        ELSE [metadata |->
                 [description |-> OrElse(Field(parsed.v.data, "description"), JStr(<<"No description">>)),
                  globs |-> OrElse(Field(parsed.v.data, "globs"), JArr(<<>>)),
                  alwaysApply |-> OrElse(Field(parsed.v.data, "alwaysApply"), JBool(FALSE))],
              content |-> trim(parsed.v.content)]

-----------------------------------------------------------------------------
(* scanRulesCore (src/unnamed/part_002)                                    *)

\* The loop without its catch: the failure of a read leaves the call.
scanRulesCatch_Rethrow(filePath) == Err

\* The catch block of the loop: the entry of a file that could not be read.
scanRulesCatch(filePath) ==
    Ok([path |-> filePath,
        metadata |-> [description |-> JStr(<<"Error parsing file">>)],
        content |-> ErrorContent,
        fileName |-> basename(filePath)])

\* The body of the loop for one file path: the Rule pushed for it.
scanRulesFile(f, filePath) ==
    LET content == readFile(f, filePath)
    IN  IF ~content.ok THEN scanRulesCatch(filePath)
        ELSE LET parsed == parseRuleFromString(content.v)
             IN  Ok([path |-> filePath,
                     metadata |-> parsed.metadata,
                     content |-> parsed.content,
                     fileName |-> basename(filePath)])

RECURSIVE scanRulesLoop(_, _, _, _)
scanRulesLoop(f, filePaths, i, rules) ==
    IF i > Len(filePaths) THEN Ok(rules)
    ELSE LET r == scanRulesFile(f, filePaths[i])
         IN  IF ~r.ok THEN Err
             ELSE scanRulesLoop(f, filePaths, i + 1, Append(rules, r.v))

scanRulesCore(f, projectRoot, userRoot) ==
    LET rulesDir == join(join(projectRoot, N_cursor), N_rules)
        filePaths == listFilesRecursive(f, rulesDir, <<Ext_mdc, Ext_md>>)
    IN  IF ~filePaths.ok THEN Err
        ELSE scanRulesLoop(f, filePaths.v, 1, <<>>)

-----------------------------------------------------------------------------
(* parseSections (src/src/scanner/core/asdlcHelpers.ts, lines 25-51; the   *)
(* same loop is in src/src/scanner/rulesScanner.ts, lines 132-160)         *)

LeadingHashes(line) ==
    IF \A i \in 1..Len(line) : line[i] = "#" THEN Len(line)
    ELSE (CHOOSE i \in 1..Len(line) : line[i] # "#" /\ \A j \in 1..(i - 1) : line[j] = "#") - 1

\* The white space \s+ takes after position h: as much as there is, less one
\* character when it runs to the end of the line (.+ needs one).
SpaceRun(line, h) ==
    LET run == IF \A i \in (h + 1)..Len(line) : IsSpace(line[i]) THEN Len(line) - h
               ELSE (CHOOSE i \in (h + 1)..Len(line) :
                        ~IsSpace(line[i]) /\ \A j \in (h + 1)..(i - 1) : IsSpace(line[j])) - h - 1
    IN  IF h + run = Len(line) THEN run - 1 ELSE run

\* line.match(/^(#{1,6})\s+(.+)$/): absent, or the two groups.
headingMatch(line) ==
    LET h == LeadingHashes(line)
        k == SpaceRun(line, h)
    IN  IF h >= 1 /\ h <= 6 /\ k >= 1
           /\ \A i \in (h + k + 1)..Len(line) : ~IsLineTerminator(line[i])
        THEN Ok(<<SubSeq(line, 1, h), SubSeq(line, h + k + 1, Len(line))>>)
        ELSE Err

\* A section opened with its own line as its end.
newSection_SelfEnd(m, i, length) ==
    [level |-> Len(m[1]), title |-> trimLine(m[2]), startLine |-> i, endLine |-> i]

\* The section opened at line i (zero-based) by a heading.
newSection(m, i, length) ==
    [level |-> Len(m[1]), title |-> trimLine(m[2]), startLine |-> i, endLine |-> length - 1]

\* The open section pushed as it is, its end still the last line.
closeSection_Keep(currentSection, i) == currentSection

\* Closing the open section when the heading at line i follows it.
closeSection(currentSection, i) == [currentSection EXCEPT !.endLine = i - 1]

NoSection == [level |-> 0]

\* The loop over i = 0 .. lines.length - 1, then the push of the open section.
RECURSIVE parseSectionsLoop(_, _, _, _)
parseSectionsLoop(ls, i, secs, currentSection) ==
    IF i >= Len(ls)
    THEN (IF currentSection # NoSection THEN Append(secs, currentSection) ELSE secs)
    ELSE LET m == headingMatch(ls[i + 1])
         IN  IF m.ok
             THEN parseSectionsLoop(ls, i + 1,
                    IF currentSection # NoSection
                    THEN Append(secs, closeSection(currentSection, i))
                    ELSE secs,
                    newSection(m.v, i, Len(ls)))
             ELSE parseSectionsLoop(ls, i + 1, secs, currentSection)

parseSections(ls) == parseSectionsLoop(ls, 0, <<>>, NoSection)

-----------------------------------------------------------------------------
(* parseSKILLMetadata (src/src/scanner/skillParsing.ts)                    *)

\* The text as one string: its lines with "\n" between them.
RECURSIVE FlatText(_)
FlatText(text) ==
    IF Len(text) = 1 THEN text[1]
    ELSE text[1] \o <<"\n">> \o FlatText(Tail(text))

\* Where ^ matches under the m flag.
LineStart(flat, p) == p = 1 \/ IsLineTerminator(flat[p - 1])

\* The end of the line that position p is on.
LineEnd(flat, p) ==
    IF \A i \in p..Len(flat) : ~IsLineTerminator(flat[i]) THEN Len(flat)
    ELSE (CHOOSE i \in p..Len(flat) :
            IsLineTerminator(flat[i]) /\ \A j \in p..(i - 1) : ~IsLineTerminator(flat[j])) - 1

\* The lengths \s+ can have after the prefix ending at position q, so that a
\* character of the same line follows (\s matches line breaks too).
SpaceLengths(flat, q) ==
    { k \in 1..(Len(flat) - q) :
        /\ \A j \in (q + 1)..(q + k) : IsSpace(flat[j])
        /\ q + k + 1 <= Len(flat)
        /\ ~IsLineTerminator(flat[q + k + 1]) }

Max(S) == CHOOSE x \in S : \A y \in S : y <= x
Min(S) == CHOOSE x \in S : \A y \in S : x <= y

\* content.match(/^#\s+(.+)$/m): absent, or group 1 of the leftmost match.
titleMatch(text) ==
    LET flat == FlatText(text)
        at == { p \in 1..Len(flat) :
                  LineStart(flat, p) /\ flat[p] = "#" /\ SpaceLengths(flat, p) # {} }
    IN  IF at = {} THEN Err
        ELSE LET p == Min(at)
                 k == Max(SpaceLengths(flat, p))
             IN  Ok(SubSeq(flat, p + k + 1, LineEnd(flat, p + k + 1)))

\* Array.isArray(x) ? x : undefined
ArrayOrUndefined(x) == IF x.t = "array" THEN x ELSE Undefined

\* { title: titleMatch[1].trim() }
TitleOnly(title) ==
    [title |-> JStr(trimLine(title)), overview |-> Undefined, prerequisites |-> Undefined,
     steps |-> Undefined, tools |-> Undefined, guidance |-> Undefined]

\* The fallback of both branches: the first level-1 heading, or undefined.
headingFallback(text) ==
    LET m == titleMatch(text)
    IN  IF m.ok THEN TitleOnly(m.v) ELSE Undefined

parseSKILLMetadata(text) ==
    LET parsed == matter(text)
    IN  IF ~parsed.ok THEN headingFallback(text)
        ELSE IF DOMAIN parsed.v.data = {} THEN headingFallback(text)
        ELSE [title |-> Field(parsed.v.data, "title"),
              overview |-> Field(parsed.v.data, "overview"),
              prerequisites |-> ArrayOrUndefined(Field(parsed.v.data, "prerequisites")),
              steps |-> ArrayOrUndefined(Field(parsed.v.data, "steps")),
              tools |-> ArrayOrUndefined(Field(parsed.v.data, "tools")),
              guidance |-> Field(parsed.v.data, "guidance")]

-----------------------------------------------------------------------------
(* scanSkillsCore, scanSkillsInDir (src/unnamed/part_003)                  *)

\* The loop without its inner catch.
scanSkillsCatch_Rethrow(skillPath, name, location) == Err

\* The inner catch: the entry of a subdirectory whose SKILL.md is not read.
scanSkillsCatch(skillPath, name, location) ==
    Ok([path |-> skillPath,
        content |-> ErrorContent,
        fileName |-> name,
        location |-> location,
        metadata |-> Undefined])

\* The body of the loop for one subdirectory: the Skill pushed for it.
scanSkillsEntry(f, skillsDir, name, location) ==
    LET skillPath == join(join(skillsDir, name), N_SKILL_md)
        content == readFile(f, skillPath)
    IN  IF ~content.ok THEN scanSkillsCatch(skillPath, name, location)
        ELSE Ok([path |-> skillPath,
                 content |-> content.v,
                 fileName |-> name,
                 location |-> location,
                 metadata |-> parseSKILLMetadata(content.v)])

RECURSIVE scanSkillsLoop(_, _, _, _, _, _)
scanSkillsLoop(f, skillsDir, location, entries, i, results) ==
    IF i > Len(entries) THEN Ok(results)
    ELSE IF entries[i][2] # FileType.Directory
    THEN scanSkillsLoop(f, skillsDir, location, entries, i + 1, results)
    ELSE LET r == scanSkillsEntry(f, skillsDir, entries[i][1], location)
         IN  IF ~r.ok THEN Ok(results)   \* the outer catch ends the loop
             ELSE scanSkillsLoop(f, skillsDir, location, entries, i + 1, Append(results, r.v))

\* scanSkillsInDir pushes onto the caller's results; it never throws.
scanSkillsInDir(f, skillsDir, location, results) ==
    LET entries == readDirectory(f, skillsDir)
    IN  IF ~entries.ok THEN Ok(results)
        ELSE scanSkillsLoop(f, skillsDir, location, entries.v, 1, results)

scanSkillsCore(f, projectRoot, userRoot) ==
    LET projectSkillsDir == join(join(projectRoot, N_cursor), N_skills)
        userSkillsDir == join(join(userRoot, N_cursor), N_skills)
        afterProject == scanSkillsInDir(f, projectSkillsDir, "workspace", <<>>)
    IN  IF ~afterProject.ok THEN Err
        ELSE scanSkillsInDir(f, userSkillsDir, "global", afterProject.v)

-----------------------------------------------------------------------------
(* listFilesFlat and scanCommandsCore (src/unnamed/part_004)               *)

\* The loop without its test of excludeNames.
RECURSIVE listFilesFlatLoop_NoExclude(_, _, _, _, _, _)
listFilesFlatLoop_NoExclude(dirPath, normalizedExtensions, excludeNames, entries, i, results) ==
    IF i > Len(entries) THEN results
    ELSE LET name == entries[i][1]
             fileType == entries[i][2]
             keep == /\ (fileType = FileType.File \/ fileType = FileType.SymbolicLink)
                     /\ includes(normalizedExtensions, toLowerCase(extname(name)))
         IN  listFilesFlatLoop_NoExclude(dirPath, normalizedExtensions, excludeNames, entries,
                                         i + 1,
                                         IF keep THEN Append(results, join(dirPath, name))
                                         ELSE results)

RECURSIVE listFilesFlatLoop(_, _, _, _, _, _)
listFilesFlatLoop(dirPath, normalizedExtensions, excludeNames, entries, i, results) ==
    IF i > Len(entries) THEN results
    ELSE LET name == entries[i][1]
             fileType == entries[i][2]
             keep == /\ ~includes(excludeNames, name)
                     /\ (fileType = FileType.File \/ fileType = FileType.SymbolicLink)
                     /\ includes(normalizedExtensions, toLowerCase(extname(name)))
         IN  listFilesFlatLoop(dirPath, normalizedExtensions, excludeNames, entries, i + 1,
                               IF keep THEN Append(results, join(dirPath, name)) ELSE results)

\* A listing that goes down into the subdirectories.
listFilesFlat_Recursive(f, dirPath, extensions, excludeNames) ==
    listFilesRecursive(f, dirPath, extensions)

listFilesFlat(f, dirPath, extensions, excludeNames) ==
    LET entries == readDirectory(f, dirPath)
    IN  IF ~entries.ok THEN Ok(<<>>)
        ELSE Ok(listFilesFlatLoop(dirPath, normalizeExtensions(extensions), excludeNames,
                                  entries.v, 1, <<>>))

\* The loop body without its catch.
scanCommandsFile_Rethrow(f, filePath, location) ==
    LET content == readFile(f, filePath)
    IN  IF ~content.ok THEN Err
        ELSE Ok([path |-> filePath,
                 content |-> content.v,
                 fileName |-> basenameExt(filePath, Ext_md),
                 location |-> location])

\* The body of either loop for one file: the Command pushed for it.
scanCommandsFile(f, filePath, location) ==
    LET content == readFile(f, filePath)
    IN  Ok([path |-> filePath,
            content |-> IF content.ok THEN content.v ELSE ErrorContent,
            fileName |-> basenameExt(filePath, Ext_md),
            location |-> location])

RECURSIVE scanCommandsLoop(_, _, _, _, _)
scanCommandsLoop(f, files, location, i, commands) ==
    IF i > Len(files) THEN Ok(commands)
    ELSE LET r == scanCommandsFile(f, files[i], location)
         IN  IF ~r.ok THEN Err
             ELSE scanCommandsLoop(f, files, location, i + 1, Append(commands, r.v))

scanCommandsCore(f, projectRoot, userRoot) ==
    LET projectCommandsDir == join(join(projectRoot, N_cursor), N_commands)
        userCommandsDir == join(join(userRoot, N_cursor), N_commands)
        projectFiles == listFilesFlat(f, projectCommandsDir, <<Ext_md>>, <<N_README_md>>)
        userFiles == listFilesFlat(f, userCommandsDir, <<Ext_md>>, <<N_README_md>>)
    IN  IF ~projectFiles.ok THEN Err
        ELSE LET afterProject == scanCommandsLoop(f, projectFiles.v, "workspace", 1, <<>>)
             IN  IF ~afterProject.ok \/ ~userFiles.ok THEN Err
                 ELSE scanCommandsLoop(f, userFiles.v, "global", 1, afterProject.v)

-----------------------------------------------------------------------------
(* hasSection, extractSchemaId (src/src/scanner/core/asdlcHelpers.ts)      *)

\* new RegExp(`^##\\s+${sectionName}`, 'mi').test(content)
hasSection(content, sectionName) ==
    LET flat == FlatText(content)
    IN  \E p \in 1..Len(flat) :
          /\ LineStart(flat, p)
          /\ p + 1 <= Len(flat) /\ flat[p] = "#" /\ flat[p + 1] = "#"
          /\ \E k \in 1..Len(flat) :
               /\ p + 1 + k + Len(sectionName) <= Len(flat)
               /\ \A j \in (p + 2)..(p + 1 + k) : IsSpace(flat[j])
               /\ toLowerCase(SubSeq(flat, p + 2 + k, p + 1 + k + Len(sectionName)))
                    = toLowerCase(sectionName)

JNum(n) == [t |-> "number", v |-> n]
JObj(o) == [t |-> "object", v |-> o]

JsonNumbers == {"0", "5"}

\* The tokens of a JSON text: its lexemes without the white space between.
JsonTokens(text) == SelectSeq(FlatText(text), LAMBDA c : ~IsSpace(c))

\* JSON.parse, value by value: [ok, v, next] from token i on.
RECURSIVE JsonValue(_, _)
RECURSIVE JsonMembers(_, _, _)
JsonValue(tok, i) ==
    IF i > Len(tok) THEN [ok |-> FALSE]
    ELSE CASE tok[i] = "null" -> [ok |-> TRUE, v |-> JNull, next |-> i + 1]
           [] tok[i] = "true" -> [ok |-> TRUE, v |-> JBool(TRUE), next |-> i + 1]
           [] tok[i] = "false" -> [ok |-> TRUE, v |-> JBool(FALSE), next |-> i + 1]
           [] tok[i] \in JsonNumbers -> [ok |-> TRUE, v |-> JNum(tok[i]), next |-> i + 1]
           [] tok[i] = "\"" ->
                IF i + 1 <= Len(tok) /\ tok[i + 1] = "\""
                THEN [ok |-> TRUE, v |-> JStr(<<>>), next |-> i + 2]
                ELSE IF i + 2 <= Len(tok) /\ tok[i + 2] = "\""
                THEN [ok |-> TRUE, v |-> JStr(<<tok[i + 1]>>), next |-> i + 3]
                ELSE [ok |-> FALSE]
           [] tok[i] = "{" ->
                IF i + 1 <= Len(tok) /\ tok[i + 1] = "}"
                THEN [ok |-> TRUE, v |-> JObj(<<>>), next |-> i + 2]
                ELSE JsonMembers(tok, i + 1, <<>>)
           [] OTHER -> [ok |-> FALSE]

\* The members of an object from token i on; members is the sequence of
\* <<key, value>> read so far.  A repeated key keeps its last value.
JsonMembers(tok, i, members) ==
    LET key == JsonValue(tok, i)
    IN  IF ~key.ok \/ key.v.t # "string" \/ key.next > Len(tok) \/ tok[key.next] # ":"
        THEN [ok |-> FALSE]
        ELSE LET val == JsonValue(tok, key.next + 1)
             IN  IF ~val.ok \/ val.next > Len(tok) THEN [ok |-> FALSE]
                 ELSE LET all == Append(members, <<key.v.v, val.v>>)
                      IN  IF tok[val.next] = ","
                          THEN JsonMembers(tok, val.next + 1, all)
                          ELSE IF tok[val.next] = "}"
                          THEN [ok |-> TRUE,
                                v |-> JObj([k \in { all[j][1] : j \in 1..Len(all) } |->
                                             all[Max({ j \in 1..Len(all) : all[j][1] = k })][2]]),
                                next |-> val.next + 1]
                          ELSE [ok |-> FALSE]

JSONparse(text) ==
    LET tok == JsonTokens(text)
        r == JsonValue(tok, 1)
    IN  IF r.ok /\ r.next = Len(tok) + 1 THEN Ok(r.v) ELSE Err

\* json.<key>: throws on null, undefined on a primitive or a missing key.
Property(json, key) ==
    IF json.t = "null" THEN Err
    ELSE IF json.t = "object" /\ key \in DOMAIN json.v THEN Ok(json.v[key])
    ELSE Ok(Undefined)

\* a ?? b giving a whatever it is.
Coalesce_First(a, b) == a

\* a ?? b
Coalesce(a, b) == IF a.t \in {"null", "undefined"} THEN b ELSE a

extractSchemaId(content) ==
    LET json == JSONparse(content)
    IN  IF ~json.ok THEN Undefined
        ELSE IF ~Property(json.v, <<"$id">>).ok THEN Undefined
        ELSE Coalesce(Property(json.v, <<"$id">>).v, Property(json.v, <<"id">>).v)

-----------------------------------------------------------------------------
(* scanAsdlcCore and its sub-scans (src/unnamed/part_001).  Timestamps     *)
(* (stat.mtime, lastModified) are left out.                                *)

S_Blueprint == <<"B", "l", "u", "e", "p", "r", "i", "n", "t">>
S_Contract == <<"C", "o", "n", "t", "r", "a", "c", "t">>

NoAgentsMd == [exists |-> FALSE, path |-> Undefined, content |-> Undefined, sections |-> <<>>]

\* A scan of AGENTS.md that also looks at specs/.
scanAgentsMdCore_NeedsSpecs(f, projectRoot) ==
    LET agentsMdPath == join(projectRoot, N_AGENTS_md)
        st == stat(f, agentsMdPath)
        content == readFile(f, agentsMdPath)
    IN  IF ~st.ok \/ ~stat(f, join(projectRoot, N_specs)).ok THEN NoAgentsMd
        ELSE IF st.v.type # FileType.File THEN NoAgentsMd
        ELSE IF ~content.ok THEN NoAgentsMd
        ELSE [exists |-> TRUE,
              path |-> JPath(agentsMdPath),
              content |-> JText(content.v),
              sections |-> parseSections(content.v)]

scanAgentsMdCore(f, projectRoot) ==
    LET agentsMdPath == join(projectRoot, N_AGENTS_md)
        st == stat(f, agentsMdPath)
        content == readFile(f, agentsMdPath)
    IN  IF ~st.ok THEN NoAgentsMd
        ELSE IF st.v.type # FileType.File THEN NoAgentsMd
        ELSE IF ~content.ok THEN NoAgentsMd
        ELSE [exists |-> TRUE,
              path |-> JPath(agentsMdPath),
              content |-> JText(content.v),
              sections |-> parseSections(content.v)]

\* The body of scanSpecsCore's loop keeping a subdirectory whose spec.md
\* cannot be read.
scanSpecsEntry_KeepUnreadable(f, specsPath, name) ==
    LET specFilePath == join(join(specsPath, name), N_spec_md)
        st == stat(f, specFilePath)
        content == readFile(f, specFilePath)
    IN  IF ~st.ok THEN <<>>
        ELSE IF st.v.type # FileType.File THEN <<>>
        ELSE << [domain |-> name,
                 path |-> specFilePath,
                 hasBlueprint |-> content.ok /\ hasSection(content.v, S_Blueprint),
                 hasContract |-> content.ok /\ hasSection(content.v, S_Contract)] >>

\* The body of scanSpecsCore's loop for one subdirectory: the SpecEntry
\* pushed for it, or nothing.
scanSpecsEntry(f, specsPath, name) ==
    LET specFilePath == join(join(specsPath, name), N_spec_md)
        st == stat(f, specFilePath)
        content == readFile(f, specFilePath)
    IN  IF ~st.ok THEN <<>>
        ELSE IF st.v.type # FileType.File THEN <<>>
        ELSE IF ~content.ok THEN <<>>
        ELSE << [domain |-> name,
                 path |-> specFilePath,
                 hasBlueprint |-> hasSection(content.v, S_Blueprint),
                 hasContract |-> hasSection(content.v, S_Contract)] >>

RECURSIVE scanSpecsLoop(_, _, _, _, _)
scanSpecsLoop(f, specsPath, entries, i, specs) ==
    IF i > Len(entries) THEN specs
    ELSE IF entries[i][2] # FileType.Directory
    THEN scanSpecsLoop(f, specsPath, entries, i + 1, specs)
    ELSE scanSpecsLoop(f, specsPath, entries, i + 1,
                       specs \o scanSpecsEntry(f, specsPath, entries[i][1]))

\* The result of a failed scan of specs/ reporting that it exists.
NoSpecs_Exists == [exists |-> TRUE, path |-> Undefined, specs |-> <<>>]

NoSpecs == [exists |-> FALSE, path |-> Undefined, specs |-> <<>>]

scanSpecsCore(f, projectRoot) ==
    LET specsPath == join(projectRoot, N_specs)
        st == stat(f, specsPath)
        entries == readDirectory(f, specsPath)
    IN  IF ~st.ok THEN NoSpecs
        ELSE IF st.v.type # FileType.Directory THEN NoSpecs
        ELSE IF ~entries.ok THEN NoSpecs
        ELSE [exists |-> TRUE,
              path |-> JPath(specsPath),
              specs |-> scanSpecsLoop(f, specsPath, entries.v, 1, <<>>)]

\* name.replace(/\.json$/, '')
stripJson(name) ==
    IF endsWith(name, Ext_json) THEN SubSeq(name, 1, Len(name) - Len(Ext_json)) ELSE name

\* The body of scanSchemasCore's loop for one .json file.
scanSchemasEntry(f, schemasPath, name) ==
    LET schemaFilePath == join(schemasPath, name)
        content == readFile(f, schemaFilePath)
    IN  [name |-> stripJson(name),
         path |-> schemaFilePath,
         schemaId |-> IF content.ok THEN extractSchemaId(content.v) ELSE Undefined]

RECURSIVE scanSchemasLoop(_, _, _, _, _)
scanSchemasLoop(f, schemasPath, entries, i, schemas) ==
    IF i > Len(entries) THEN schemas
    ELSE IF (entries[i][2] # FileType.File /\ entries[i][2] # FileType.SymbolicLink)
            \/ ~endsWith(entries[i][1], Ext_json)
    THEN scanSchemasLoop(f, schemasPath, entries, i + 1, schemas)
    ELSE scanSchemasLoop(f, schemasPath, entries, i + 1,
                         Append(schemas, scanSchemasEntry(f, schemasPath, entries[i][1])))

NoSchemas == [exists |-> FALSE, path |-> Undefined, schemas |-> <<>>]

\* A scan of schemas/ that one unreadable schema file aborts.
scanSchemasCore_Abort(f, projectRoot) ==
    LET schemasPath == join(projectRoot, N_schemas)
        st == stat(f, schemasPath)
        entries == readDirectory(f, schemasPath)
    IN  IF ~st.ok THEN NoSchemas
        ELSE IF st.v.type # FileType.Directory THEN NoSchemas
        ELSE IF ~entries.ok THEN NoSchemas
        ELSE IF \E i \in 1..Len(entries.v) :
                  /\ entries.v[i][2] \in {FileType.File, FileType.SymbolicLink}
                  /\ endsWith(entries.v[i][1], Ext_json)
                  /\ ~readFile(f, join(schemasPath, entries.v[i][1])).ok
        THEN NoSchemas
        ELSE [exists |-> TRUE,
              path |-> JPath(schemasPath),
              schemas |-> scanSchemasLoop(f, schemasPath, entries.v, 1, <<>>)]

scanSchemasCore(f, projectRoot) ==
    LET schemasPath == join(projectRoot, N_schemas)
        st == stat(f, schemasPath)
        entries == readDirectory(f, schemasPath)
    IN  IF ~st.ok THEN NoSchemas
        ELSE IF st.v.type # FileType.Directory THEN NoSchemas
        ELSE IF ~entries.ok THEN NoSchemas
        ELSE [exists |-> TRUE,
              path |-> JPath(schemasPath),
              schemas |-> scanSchemasLoop(f, schemasPath, entries.v, 1, <<>>)]

\* The bundle scanAsdlcCore builds from the three results.
asdlcBundle(agentsMd, specs, schemas) ==
    [agentsMd |-> agentsMd,
     specs |-> specs,
     schemas |-> schemas,
     hasAnyArtifacts |-> agentsMd.exists \/ specs.exists \/ schemas.exists]

scanAsdlcCore(f, projectRoot) ==
    Ok(asdlcBundle(scanAgentsMdCore(f, projectRoot),
                   scanSpecsCore(f, projectRoot),
                   scanSchemasCore(f, projectRoot)))

-----------------------------------------------------------------------------
(* AsdlcArtifactScanner.scanAll of the editor host (src/unnamed/part_000)  *)

\* parseAgentsMd(content, path), as far as its existence flag, path and
\* sections go.
parseAgentsMd(content, path) ==
    [exists |-> TRUE, path |-> JPath(path), sections |-> parseSections(content)]

scanAllAgentsMd(core) ==
    IF core.agentsMd.exists /\ Truthy(core.agentsMd.content) /\ Truthy(core.agentsMd.path)
    THEN parseAgentsMd(core.agentsMd.content.v, core.agentsMd.path.v)
    ELSE [exists |-> FALSE, sections |-> <<>>]

scanAll(f, workspaceRoot) ==
    LET core == scanAsdlcCore(f, workspaceRoot)
    IN  IF ~core.ok
        THEN Ok([agentsMd |-> [exists |-> FALSE, sections |-> <<>>],
                 specs |-> [exists |-> FALSE, specs |-> <<>>],
                 schemas |-> [exists |-> FALSE, schemas |-> <<>>],
                 hasAnyArtifacts |-> FALSE])
        ELSE Ok([agentsMd |-> scanAllAgentsMd(core.v),
                 specs |-> [exists |-> core.v.specs.exists,
                            path |-> core.v.specs.path,
                            specs |-> core.v.specs.specs],
                 schemas |-> [exists |-> core.v.schemas.exists,
                              path |-> core.v.schemas.path,
                              schemas |-> core.v.schemas.schemas],
                 hasAnyArtifacts |-> core.v.hasAnyArtifacts])

-----------------------------------------------------------------------------
(* Lookups by name on the standalone server                                *)
(* (src/src/mcp/mcpServerProvider.ts)                                      *)

\* s.replace(/\.(mdc|md)$/, '')
stripRuleExt(s) ==
    IF endsWith(s, Ext_mdc) THEN SubSeq(s, 1, Len(s) - Len(Ext_mdc))
    ELSE IF endsWith(s, Ext_md) THEN SubSeq(s, 1, Len(s) - Len(Ext_md))
    ELSE s

\* s.replace(/\.md$/, '')
stripMd(s) == IF endsWith(s, Ext_md) THEN SubSeq(s, 1, Len(s) - Len(Ext_md)) ELSE s

\* The answer of a lookup: the content of the record found, or not found.
Found(records, i) == IF i = 0 THEN Err ELSE Ok(records[i].content)

getRules(f) == scanRulesCore(f, ProjectRoot, UserRoot)
getCommands(f) == scanCommandsCore(f, ProjectRoot, UserRoot)
getSkills(f) == scanSkillsCore(f, ProjectRoot, UserRoot)

\* get_rule
getRuleMatches(r, name) ==
    stripRuleExt(toLowerCase(r.fileName)) = stripRuleExt(toLowerCase(name))
get_rule(f, name) ==
    LET rules == getRules(f).v
    IN  Found(rules, FirstIndex(rules, LAMBDA r : getRuleMatches(r, name)))

\* get_command
getCommandMatches(c, name) == toLowerCase(c.fileName) = stripMd(toLowerCase(name))
get_command(f, name) ==
    LET commands == getCommands(f).v
    IN  Found(commands, FirstIndex(commands, LAMBDA c : getCommandMatches(c, name)))

\* get_skill
getSkillMatches(sk, name) == toLowerCase(sk.fileName) = toLowerCase(name)
get_skill(f, name) ==
    LET skills == getSkills(f).v
    IN  Found(skills, FirstIndex(skills, LAMBDA sk : getSkillMatches(sk, name)))

\* ace://rules/{name}
ruleResourceMatches(r, ruleName) == stripRuleExt(r.fileName) = ruleName
ruleResource(f, ruleName) ==
    LET rules == getRules(f).v
    IN  Found(rules, FirstIndex(rules, LAMBDA r : ruleResourceMatches(r, ruleName)))

\* ace://commands/{name}
commandResourceMatches(c, commandName) == c.fileName = commandName
commandResource(f, commandName) ==
    LET commands == getCommands(f).v
    IN  Found(commands, FirstIndex(commands, LAMBDA c : commandResourceMatches(c, commandName)))

\* ace://skills/{name}
skillResourceMatches(sk, name) == toLowerCase(sk.fileName) = toLowerCase(name)
skillResource(f, name) ==
    LET skills == getSkills(f).v
    IN  Found(skills, FirstIndex(skills, LAMBDA sk : skillResourceMatches(sk, name)))

-----------------------------------------------------------------------------
(* The filesystems the scans are run on.                                   *)

MaxNodes == 3     \* entries in a rules tree (all levels together)
MaxFiles == 2     \* entries in a flat directory


FileNode(read) == [stat |-> Ok(FileType.File), read |-> read, list |-> Err]
DirNode(list) == [stat |-> Ok(FileType.Directory), read |-> Err, list |-> list]
Entry(name, kind, node) == [name |-> name, kind |-> kind, node |-> node]
Absent == [name |-> <<>>, kind |-> FileType.Unknown, node |-> Missing]

\* A listing of the entries that are there.
Present(es) == SelectSeq(es, LAMBDA e : e # Absent)

DistinctNames(es) == \A i, j \in 1..Len(es) : i # j => es[i].name # es[j].name

T_plain == << <<"#", " ", "T">>, <<"x">> >>
T_front == << DelimLine, <<"description", ":", " ", "d1">>, DelimLine,
              <<>>, <<" ", "x", " ">>, <<>> >>
T_nodesc == << DelimLine, <<"alwaysApply", ":", " ", "true">>, DelimLine, <<"y">> >>
T_badyaml == << DelimLine, <<"{", "bad">>, DelimLine, <<"x">> >>

F_a_mdc == <<"a", ".", "m", "d", "c">>
F_B_MD == <<"B", ".", "M", "D">>
F_c_txt == <<"c", ".", "t", "x", "t">>
F_d_md == <<"d", ".", "m", "d">>
F_e_mdc == <<"e", ".", "m", "d", "c">>
D_sub == <<"s", "u", "b">>
D_b == <<"b">>

\* Entries without children, for the trees the walker is run on.
LeafEntries ==
    { Entry(F_a_mdc, FileType.File, FileNode(Ok(T_plain))),
      Entry(F_B_MD, FileType.SymbolicLink, FileNode(Ok(T_front))),
      Entry(F_c_txt, FileType.File, FileNode(Ok(T_plain))),
      Entry(F_d_md, FileType.Unknown, [stat |-> Ok(FileType.Unknown), read |-> Err, list |-> Err]),
      Entry(DotDot, FileType.Directory, Missing),
      Entry(Dot, FileType.Directory, Missing),
      Entry(D_sub, FileType.Directory, DirNode(Err)),
      Entry(D_sub, FileType.Directory, DirNode(Ok(<<>>))) }

DirNames == {D_sub, D_b}

\* The listings with exactly n entries at all levels together.
RECURSIVE ForestsExact(_)
RECURSIVE EntriesExact(_)
ForestsExact(n) ==
    IF n = 0 THEN {<<>>}
    ELSE { l \in UNION { { <<e>> \o rest : e \in EntriesExact(k), rest \in ForestsExact(n - k) } :
                         k \in 1..n } : DistinctNames(l) }
EntriesExact(k) ==
    IF k = 1 THEN LeafEntries
    ELSE { Entry(d, FileType.Directory, DirNode(Ok(l))) : d \in DirNames, l \in ForestsExact(k - 1) }

RuleForests == UNION { ForestsExact(n) : n \in 0..MaxNodes }

\* The spec's example: a/b.mdc and a/b/c.md.
ExampleForest ==
    << Entry(<<"a">>, FileType.Directory, DirNode(Ok(
         << Entry(<<"b", ".", "m", "d", "c">>, FileType.File, FileNode(Ok(T_plain))),
            Entry(D_b, FileType.Directory, DirNode(Ok(
              << Entry(<<"c", ".", "m", "d">>, FileType.File, FileNode(Ok(T_front))) >>))) >>))) >>

\* Flat rule directories whose files differ in what reading them gives.
RuleReads == {Err, Ok(T_plain), Ok(T_front), Ok(T_nodesc), Ok(T_badyaml)}
RuleFileEntries ==
    { Entry(n, FileType.File, FileNode(r)) : n \in {F_a_mdc, F_d_md, F_e_mdc}, r \in RuleReads }

RECURSIVE FlatListings(_, _)
FlatListings(entries, n) ==
    IF n = 0 THEN {<<>>}
    ELSE LET shorter == FlatListings(entries, n - 1)
         IN  shorter \cup { l \in { Append(s, e) : s \in shorter, e \in entries } : DistinctNames(l) }

\* The node at {projectRoot}/.cursor/rules.
RulesNodes ==
    { DirNode(Ok(l)) : l \in RuleForests \cup {ExampleForest} \cup FlatListings(RuleFileEntries, MaxFiles) }
    \cup { DirNode(Err), FileNode(Ok(T_plain)), Missing }

\* Skill directories: with a SKILL.md that reads or does not, without one,
\* or not listable.
T_skillfm == << DelimLine, <<"title", ":", " ", "S1">>, DelimLine, <<"#", " ", "H">> >>
T_nohead == << <<"x">> >>

SkillDirNodes ==
    { DirNode(Ok(<< Entry(N_SKILL_md, FileType.File, FileNode(r)) >>)) :
        r \in {Ok(T_plain), Ok(T_skillfm), Ok(T_nohead), Err} }
    \cup { DirNode(Ok(<<>>)), DirNode(Err) }

K_k1 == <<"k", "1">>
K_K2 == <<"K", "2">>
K_g == <<"g">>

SkillEntries ==
    { Entry(n, FileType.Directory, d) : n \in {K_k1, K_K2}, d \in SkillDirNodes }
    \cup { Entry(F_d_md, FileType.File, FileNode(Ok(T_plain))),
           Entry(<<"l", "n">>, FileType.SymbolicLink,
                 DirNode(Ok(<< Entry(N_SKILL_md, FileType.File, FileNode(Ok(T_plain))) >>))) }

SkillsNodes ==
    { DirNode(Ok(l)) : l \in FlatListings(SkillEntries, MaxFiles) } \cup { DirNode(Err), Missing }

GlobalSkillsNodes ==
    { Missing, DirNode(Err),
      DirNode(Ok(<< Entry(K_k1, FileType.Directory,
                          DirNode(Ok(<< Entry(N_SKILL_md, FileType.File, FileNode(Ok(T_skillfm))) >>))) >>)),
      DirNode(Ok(<< Entry(K_g, FileType.Directory, DirNode(Ok(<<>>))) >>)) }

\* Command directories.
F_x_md == <<"x", ".", "m", "d">>
F_X_MD == <<"X", ".", "M", "D">>
F_z_md == <<"z", ".", "m", "d">>

CommandEntries ==
    { Entry(F_x_md, FileType.File, FileNode(Ok(T_plain))),
      Entry(F_x_md, FileType.File, FileNode(Err)),
      Entry(F_X_MD, FileType.File, FileNode(Ok(T_front))),
      Entry(N_README_md, FileType.File, FileNode(Ok(T_plain))),
      Entry(F_c_txt, FileType.File, FileNode(Ok(T_plain))),
      Entry(F_z_md, FileType.SymbolicLink, FileNode(Ok(T_nohead))),
      Entry(F_z_md, FileType.Directory, DirNode(Ok(<<>>))) }

CommandsNodes ==
    { DirNode(Ok(l)) : l \in FlatListings(CommandEntries, MaxFiles) } \cup { DirNode(Err), Missing }

GlobalCommandsNodes ==
    { Missing,
      DirNode(Ok(<< Entry(F_x_md, FileType.File, FileNode(Ok(T_nodesc))) >>)),
      DirNode(Ok(<< Entry(N_README_md, FileType.File, FileNode(Ok(T_plain))),
                    Entry(F_z_md, FileType.File, FileNode(Err)) >>)) }

\* AGENTS.md, specs/ and schemas/.
T_blueprint == << <<"#", "#", " ", "B", "l", "u", "e", "p", "r", "i", "n", "t">>, <<"x">> >>
J_dollar == << <<"{", "\"", "$id", "\"", ":", "\"", "u1", "\"", "}">> >>
J_id == << <<"{", "\"", "id", "\"", ":", "\"", "u2", "\"", "}">> >>
J_bad == << <<"{", "\"", "bad", "\"", ":">> >>

AgentsNodes ==
    { Missing,
      FileNode(Ok(T_plain)),
      FileNode(Ok(EmptyText)),
      FileNode(Err),
      DirNode(Ok(<<>>)),
      [stat |-> Err, read |-> Ok(T_plain), list |-> Err] }

SpecDirNodes ==
    { DirNode(Ok(<< Entry(N_spec_md, FileType.File, FileNode(r)) >>)) :
        r \in {Ok(T_blueprint), Ok(T_plain), Err} }
    \cup { DirNode(Ok(<< Entry(N_spec_md, FileType.Directory, DirNode(Ok(<<>>))) >>)),
           DirNode(Ok(<<>>)) }

SpecEntries ==
    { Entry(n, FileType.Directory, d) : n \in {<<"d", "1">>, <<"d", "2">>}, d \in SpecDirNodes }
    \cup { Entry(N_spec_md, FileType.File, FileNode(Ok(T_blueprint))) }

SpecsNodes ==
    { DirNode(Ok(l)) : l \in FlatListings(SpecEntries, MaxFiles) }
    \cup { DirNode(Err), FileNode(Ok(T_plain)), Missing }

SpecsFew ==
    { Missing, DirNode(Err), DirNode(Ok(<<>>)),
      DirNode(Ok(<< Entry(<<"d", "1">>, FileType.Directory,
                          DirNode(Ok(<< Entry(N_spec_md, FileType.File, FileNode(Ok(T_blueprint))) >>))) >>)) }

F_s_json == <<"s", ".", "j", "s", "o", "n">>
F_t_json == <<"t", ".", "j", "s", "o", "n">>

SchemaEntries ==
    { Entry(F_s_json, FileType.File, FileNode(r)) : r \in {Ok(J_dollar), Ok(J_bad), Err} }
    \cup { Entry(F_t_json, FileType.SymbolicLink, FileNode(Ok(J_id))),
           Entry(<<"u", ".", "J", "S", "O", "N">>, FileType.File, FileNode(Ok(J_id))),
           Entry(F_c_txt, FileType.File, FileNode(Ok(T_plain))),
           Entry(F_t_json, FileType.Directory, DirNode(Ok(<<>>))) }

SchemasNodes ==
    { DirNode(Ok(l)) : l \in FlatListings(SchemaEntries, MaxFiles) }
    \cup { DirNode(Err), FileNode(Ok(J_id)), Missing }

SchemasFew ==
    { Missing, FileNode(Ok(J_id)), DirNode(Ok(<<>>)),
      DirNode(Ok(<< Entry(F_s_json, FileType.File, FileNode(Ok(J_dollar))) >>)) }

\* The filesystem with the given nodes at their places; a Missing node is
\* not listed by its parent.
At(name, node) ==
    IF node = Missing THEN Absent
    ELSE Entry(name, IF node.stat.ok THEN node.stat.v ELSE FileType.Unknown, node)

Nothing ==
    [rules |-> Missing, commands |-> Missing, skills |-> Missing,
     gcommands |-> Missing, gskills |-> Missing,
     agents |-> Missing, specs |-> Missing, schemas |-> Missing]

DotCursor(rules, commands, skills) ==
    IF rules = Missing /\ commands = Missing /\ skills = Missing THEN Missing
    ELSE DirNode(Ok(Present(<< At(N_rules, rules), At(N_commands, commands), At(N_skills, skills) >>)))

MkFs(c) ==
    DirNode(Ok(
      << Entry(N_proj, FileType.Directory, DirNode(Ok(Present(
           << At(N_cursor, DotCursor(c.rules, c.commands, c.skills)),
              At(N_AGENTS_md, c.agents),
              At(N_specs, c.specs),
              At(N_schemas, c.schemas) >>)))),
         Entry(N_home, FileType.Directory, DirNode(Ok(Present(
           << At(N_cursor, DotCursor(Missing, c.gcommands, c.gskills)) >>)))) >>))

FsFamily ==
    { MkFs([Nothing EXCEPT !.rules = r]) : r \in RulesNodes }
    \cup { MkFs([Nothing EXCEPT !.skills = k, !.gskills = g]) :
             k \in SkillsNodes, g \in GlobalSkillsNodes }
    \cup { MkFs([Nothing EXCEPT !.commands = k, !.gcommands = g]) :
             k \in CommandsNodes, g \in GlobalCommandsNodes }
    \cup { MkFs([Nothing EXCEPT !.agents = a, !.specs = x, !.schemas = y]) :
             a \in AgentsNodes, x \in SpecsFew, y \in SchemasFew }
    \cup { MkFs([Nothing EXCEPT !.specs = x]) : x \in SpecsNodes }
    \cup { MkFs([Nothing EXCEPT !.schemas = y]) : y \in SchemasNodes }

-----------------------------------------------------------------------------
(* Operations, each applied to the current filesystem.                     *)

ExtensionLists == { <<Ext_mdc, Ext_md>>, <<Ext_mdc>>, << <<"M", "D">> >> }

RulesDir == join(join(ProjectRoot, N_cursor), N_rules)

Init ==
    /\ fs \in FsFamily
    /\ op = "none"
    /\ arg = <<>>
    /\ out = <<>>
    /\ lines = <<>>
    /\ sections = <<>>
    /\ calls = <<>>

ListFilesRecursive ==
    \E extensions \in ExtensionLists :
        /\ op' = "listFilesRecursive"
        /\ arg' = extensions
        /\ out' = listFilesRecursive(fs, RulesDir, extensions)
        /\ UNCHANGED <<fs, lines, sections, calls>>

ScanRules ==
    /\ op' = "scanRules"
    /\ arg' = <<>>
    /\ out' = scanRulesCore(fs, ProjectRoot, UserRoot)
    /\ UNCHANGED <<fs, lines, sections, calls>>

ScanCommands ==
    /\ op' = "scanCommands"
    /\ arg' = <<>>
    /\ out' = scanCommandsCore(fs, ProjectRoot, UserRoot)
    /\ UNCHANGED <<fs, lines, sections, calls>>

ScanSkills ==
    /\ op' = "scanSkills"
    /\ arg' = <<>>
    /\ out' = scanSkillsCore(fs, ProjectRoot, UserRoot)
    /\ UNCHANGED <<fs, lines, sections, calls>>

ScanAsdlc ==
    /\ op' = "scanAsdlc"
    /\ arg' = <<>>
    /\ out' = scanAsdlcCore(fs, ProjectRoot)
    /\ UNCHANGED <<fs, lines, sections, calls>>

ScanAll ==
    /\ op' = "scanAll"
    /\ arg' = <<>>
    /\ out' = scanAll(fs, ProjectRoot)
    /\ UNCHANGED <<fs, lines, sections, calls>>

Next ==
    \/ ListFilesRecursive
    \/ ScanRules
    \/ ScanCommands
    \/ ScanSkills
    \/ ScanAsdlc
    \/ ScanAll

Spec == Init /\ [][Next]_vars

-----------------------------------------------------------------------------
(* Directory trees, as the claims speak of them.                           *)

\* The directories reachable from dir through entries of kind Directory
\* other than "." and "..", dir included, whether or not they can be listed.
RECURSIVE ReachableDirs(_, _)
ReachableDirs(f, dir) ==
    LET r == readDirectory(f, dir)
    IN  {dir} \cup
        (IF ~r.ok THEN {}
         ELSE UNION { ReachableDirs(f, Append(dir, r.v[i][1])) :
                        i \in { j \in 1..Len(r.v) :
                                  r.v[j][2] = FileType.Directory /\ r.v[j][1] \notin {Dot, DotDot} } })

ListedDirs(f, dir) == { d \in ReachableDirs(f, dir) : readDirectory(f, d).ok }
FailedDirs(f, dir) == { d \in ReachableDirs(f, dir) : ~readDirectory(f, d).ok }

AllowedSet(extensions) ==
    { IF Len(e) > 0 /\ e[1] = "." THEN toLowerCase(e) ELSE <<".">> \o toLowerCase(e) :
        e \in { extensions[i] : i \in 1..Len(extensions) } }

\* The files of the listed directories that the extension filter lets through.
MatchingFiles(f, dir, extensions) ==
    UNION { { Append(d, readDirectory(f, d).v[i][1]) :
                i \in { j \in 1..Len(readDirectory(f, d).v) :
                          /\ readDirectory(f, d).v[j][2] \in {FileType.File, FileType.SymbolicLink}
                          /\ toLowerCase(extname(readDirectory(f, d).v[j][1])) \in AllowedSet(extensions) } } :
            d \in ListedDirs(f, dir) }

Range(seq) == { seq[i] : i \in 1..Len(seq) }

NoDuplicates(seq) == \A i, j \in 1..Len(seq) : i # j => seq[i] # seq[j]

IsPrefix(a, b) == Len(a) <= Len(b) /\ SubSeq(b, 1, Len(a)) = a

-----------------------------------------------------------------------------
(* C1: scanRulesCore resolves, with one Rule per path that                  *)
(* listFilesRecursive discovers under .cursor/rules, in discovery order; a *)
(* file whose read fails has the sentinel pair, every other file has what  *)
(* parseRuleFromString makes of its text.                                  *)

C1_OneRulePerFile ==
    op = "scanRules" =>
        /\ out.ok
        /\ LET paths == listFilesRecursive(fs, RulesDir, <<Ext_mdc, Ext_md>>).v
           IN  /\ Len(out.v) = Len(paths)
               /\ \A i \in 1..Len(paths) :
                    /\ out.v[i].path = paths[i]
                    /\ IF ~readFile(fs, paths[i]).ok
                       THEN /\ out.v[i].metadata.description = JStr(<<"Error parsing file">>)
                            /\ out.v[i].content = ErrorContent
                       ELSE /\ out.v[i].metadata = parseRuleFromString(readFile(fs, paths[i]).v).metadata
                            /\ out.v[i].content = parseRuleFromString(readFile(fs, paths[i]).v).content

\* One file throws on read, its sibling is well-formed: two entries.
C1_Witness ==
    /\ op = "scanRules"
    /\ out.ok
    /\ Len(out.v) = 2
    /\ ~readFile(fs, out.v[1].path).ok
    /\ out.v[1].content = ErrorContent
    /\ readFile(fs, out.v[2].path) = Ok(T_front)
    /\ out.v[2].content = << <<"x">> >>
    /\ out.v[2].metadata.description = JStr(<<"d1">>)

(* C2: listFilesRecursive resolves whatever listings fail; it returns the  *)
(* matching files of every directory that was listed, and nothing at or    *)
(* below a directory whose listing failed.                                 *)

C2_NeverFails ==
    op = "listFilesRecursive" =>
        /\ out.ok
        /\ MatchingFiles(fs, RulesDir, arg) \subseteq Range(out.v)
        /\ \A i \in 1..Len(out.v) :
             \A d \in FailedDirs(fs, RulesDir) : ~IsPrefix(d, out.v[i])

\* A subdirectory cannot be listed, and a file beside it is returned.
C2_Witness ==
    /\ op = "listFilesRecursive"
    /\ out.ok
    /\ Len(out.v) >= 1
    /\ \E d \in FailedDirs(fs, RulesDir) : d # RulesDir

(* C3: when every listing succeeds, listFilesRecursive returns exactly the *)
(* File and SymbolicLink entries with an allowed lower-cased extension in  *)
(* the directories reachable from the root, each once, none outside root.  *)

C3_ExactlyReachableMatches ==
    (op = "listFilesRecursive" /\ FailedDirs(fs, RulesDir) = {}) =>
        /\ out.ok
        /\ Range(out.v) = MatchingFiles(fs, RulesDir, arg)
        /\ NoDuplicates(out.v)
        /\ \A i \in 1..Len(out.v) : IsPrefix(RulesDir, out.v[i]) /\ Len(out.v[i]) > Len(RulesDir)

\* a/b.mdc and a/b/c.md with extensions [.mdc]: only the .mdc path.
C3_Witness ==
    /\ op = "listFilesRecursive"
    /\ FailedDirs(fs, RulesDir) = {}
    /\ arg = <<Ext_mdc>>
    /\ out = Ok(<< RulesDir \o << <<"a">>, <<"b", ".", "m", "d", "c">> >> >>)
    /\ Cardinality(MatchingFiles(fs, RulesDir, <<Ext_mdc, Ext_md>>)) = 2

-----------------------------------------------------------------------------
(* parseSections on bounded documents.                                     *)

MaxLines == 3

LineAlphabet ==
    { <<"#", " ", "T">>,                                   \* level 1
      <<"#", "#", "\t", " ", "U", " ">>,                   \* level 2, title trimmed
      <<"#", "#", "#", "#", "#", "#", " ", "V">>,          \* level 6
      <<"#", "#", "#", "#", "#", "#", "#", " ", "W">>,     \* seven #: no heading
      <<"#", "T">>,                                        \* no white space: no heading
      <<" ", "#", " ", "T">>,                              \* indented: no heading
      <<"#", " ">>,                                        \* nothing after the space
      <<"#", " ", " ">>,                                   \* heading with an empty title
      <<"#", " ", "T", "\r">>,                             \* CR before the line end
      <<"x">>,
      <<>> }

RECURSIVE Documents(_)
Documents(n) ==
    IF n = 0 THEN {<<>>}
    ELSE Documents(n - 1) \cup
         { Append(d, l) : d \in { x \in Documents(n - 1) : Len(x) = n - 1 }, l \in LineAlphabet }

NoFs == MkFs(Nothing)

InitSections ==
    /\ lines \in Documents(MaxLines)
    /\ sections = <<>>
    /\ op = "none"
    /\ arg = <<>>
    /\ out = <<>>
    /\ fs = NoFs
    /\ calls = <<>>

ParseSections ==
    /\ op' = "parseSections"
    /\ sections' = parseSections(lines)
    /\ UNCHANGED <<fs, arg, out, lines, calls>>

NextSections == ParseSections

SpecSections == InitSections /\ [][NextSections]_vars

\* A heading line as the spec words it: 1 to 6 "#", then white space, then
\* text up to the end of the line.
IsHeadingLine(line) ==
    \E h \in 1..6 :
        /\ Len(line) >= h + 2
        /\ \A i \in 1..h : line[i] = "#"
        /\ IsSpace(line[h + 1])
        /\ \E t \in (h + 2)..Len(line) :
             /\ \A i \in (h + 1)..(t - 1) : IsSpace(line[i])
             /\ \A i \in t..Len(line) : ~IsLineTerminator(line[i])

\* Zero-based indices of the heading lines, in document order.
HeadingIndices(ls) == { i \in 0..(Len(ls) - 1) : IsHeadingLine(ls[i + 1]) }

Covering(secs, i) == { k \in 1..Len(secs) : secs[k].startLine <= i /\ i <= secs[k].endLine }

C8_OneSectionPerHeading ==
    op = "parseSections" =>
        /\ Len(sections) = Cardinality(HeadingIndices(lines))
        /\ { sections[k].startLine : k \in 1..Len(sections) } = HeadingIndices(lines)
        /\ \A k \in 1..(Len(sections) - 1) :
             /\ sections[k].startLine < sections[k + 1].startLine
             /\ sections[k].endLine = sections[k + 1].startLine - 1
        /\ Len(sections) > 0 => sections[Len(sections)].endLine = Len(lines) - 1

\* A document of three lines with a heading, a body line and a heading.
C8_Witness ==
    /\ op = "parseSections"
    /\ Len(lines) = 3
    /\ Len(sections) = 2
    /\ sections[1].startLine = 0 /\ sections[1].endLine = 1
    /\ sections[2].startLine = 2 /\ sections[2].endLine = 2
    /\ sections[1].level = 2 /\ sections[1].title = <<"U">>

-----------------------------------------------------------------------------
(* The artifact bundles (specification Spec).                              *)

IsBundleCall == op \in {"scanAsdlc", "scanAll"}

\* C4: in every bundle returned by scanAsdlcCore and by the editor host's
\* scanAll, hasAnyArtifacts equals agentsMd.exists OR specs.exists OR
\* schemas.exists of that same bundle.
C4_HasAnyArtifactsIsOr ==
    (IsBundleCall /\ out.ok) =>
        out.v.hasAnyArtifacts
            = (out.v.agentsMd.exists \/ out.v.specs.exists \/ out.v.schemas.exists)

\* The part of C4 that the shared core satisfies on its own.
C4_CoreIsOr ==
    (op = "scanAsdlc" /\ out.ok) =>
        out.v.hasAnyArtifacts
            = (out.v.agentsMd.exists \/ out.v.specs.exists \/ out.v.schemas.exists)

\* An empty AGENTS.md and nothing else: the editor host's bundle says there
\* are artifacts while none of its three flags is set.
C4_EmptyAgentsMd ==
    /\ op = "scanAll"
    /\ readFile(fs, join(ProjectRoot, N_AGENTS_md)) = Ok(EmptyText)
    /\ out.v.hasAnyArtifacts
    /\ ~out.v.agentsMd.exists /\ ~out.v.specs.exists /\ ~out.v.schemas.exists

-----------------------------------------------------------------------------
(* Skills whose SKILL.md is not read (specification Spec).                 *)

SkillRoots ==
    { [dir |-> join(join(ProjectRoot, N_cursor), N_skills), location |-> "workspace"],
      [dir |-> join(join(UserRoot, N_cursor), N_skills), location |-> "global"] }

\* The immediate subdirectories of a skills root, as the listing names them.
SkillSubdirs(root) ==
    LET entries == readDirectory(fs, root.dir)
    IN  IF ~entries.ok THEN {}
        ELSE { entries.v[i][1] : i \in { j \in 1..Len(entries.v) :
                                          entries.v[j][2] = FileType.Directory } }

SkillPathOf(root, name) == join(join(root.dir, name), N_SKILL_md)

EntriesAt(p) == { k \in 1..Len(out.v) : out.v[k].path = p }

\* C10: every immediate subdirectory of a skills root whose SKILL.md cannot
\* be read yields exactly one entry with the content "Error reading file
\* content", no metadata, the subdirectory's name as fileName and the
\* location of its root; its siblings are scanned all the same (each has
\* exactly one entry, a readable one with its text), and the call does not
\* reject.
C10_UnreadableSkillEntry ==
    (op = "scanSkills") =>
        /\ out.ok
        /\ \A root \in SkillRoots : \A name \in SkillSubdirs(root) :
             LET p == SkillPathOf(root, name)
                 text == readFile(fs, p)
             IN  /\ Cardinality(EntriesAt(p)) = 1
                 /\ \A k \in EntriesAt(p) :
                      /\ out.v[k].fileName = name
                      /\ out.v[k].location = root.location
                      /\ IF text.ok THEN out.v[k].content = text.v
                         ELSE /\ out.v[k].content = ErrorContent
                              /\ out.v[k].metadata = Undefined

\* A root with an unreadable skill followed by a readable sibling, scanned.
C10_Witness ==
    /\ op = "scanSkills"
    /\ out.ok
    /\ \E root \in SkillRoots :
         LET entries == readDirectory(fs, root.dir)
         IN  /\ entries.ok /\ Len(entries.v) = 2
             /\ entries.v[1][2] = FileType.Directory
             /\ entries.v[2][2] = FileType.Directory
             /\ ~readFile(fs, SkillPathOf(root, entries.v[1][1])).ok
             /\ readFile(fs, SkillPathOf(root, entries.v[2][1])).ok
             /\ \E k \in 1..Len(out.v) : out.v[k].content = ErrorContent

-----------------------------------------------------------------------------
(* Lookups by name on the standalone server (specification SpecLookup).    *)

RuleLookupNodes ==
    { DirNode(Ok(l)) : l \in FlatListings(RuleFileEntries, MaxFiles) }

LookupFamily ==
    { MkFs([Nothing EXCEPT !.rules = r]) : r \in RuleLookupNodes }
    \cup { MkFs([Nothing EXCEPT !.commands = k]) : k \in CommandsNodes }
    \cup { MkFs([Nothing EXCEPT !.skills = k]) : k \in SkillsNodes }

RequestNames ==
    { <<"a">>, <<"A">>, F_a_mdc, <<"x">>, <<"X">>, F_x_md, K_k1, <<"K", "1">> }

InitLookup ==
    /\ fs \in LookupFamily
    /\ op = "none"
    /\ arg = <<>>
    /\ out = <<>>
    /\ lines = <<>>
    /\ sections = <<>>
    /\ calls = <<>>

GetRule ==
    \E name \in RequestNames :
        /\ op' = "get_rule" /\ arg' = name /\ out' = get_rule(fs, name)
        /\ UNCHANGED <<fs, lines, sections, calls>>

GetCommand ==
    \E name \in RequestNames :
        /\ op' = "get_command" /\ arg' = name /\ out' = get_command(fs, name)
        /\ UNCHANGED <<fs, lines, sections, calls>>

GetSkill ==
    \E name \in RequestNames :
        /\ op' = "get_skill" /\ arg' = name /\ out' = get_skill(fs, name)
        /\ UNCHANGED <<fs, lines, sections, calls>>

RuleResource ==
    \E name \in RequestNames :
        /\ op' = "ace://rules" /\ arg' = name /\ out' = ruleResource(fs, name)
        /\ UNCHANGED <<fs, lines, sections, calls>>

CommandResource ==
    \E name \in RequestNames :
        /\ op' = "ace://commands" /\ arg' = name /\ out' = commandResource(fs, name)
        /\ UNCHANGED <<fs, lines, sections, calls>>

SkillResource ==
    \E name \in RequestNames :
        /\ op' = "ace://skills" /\ arg' = name /\ out' = skillResource(fs, name)
        /\ UNCHANGED <<fs, lines, sections, calls>>

NextLookup ==
    \/ GetRule
    \/ GetCommand
    \/ GetSkill
    \/ RuleResource
    \/ CommandResource
    \/ SkillResource

SpecLookup == InitLookup /\ [][NextLookup]_vars

\* The records a lookup searches, and a record's name: its fileName with the
\* recognized extension(s) stripped.
LookupRecords ==
    IF op \in {"get_rule", "ace://rules"} THEN getRules(fs).v
    ELSE IF op \in {"get_command", "ace://commands"} THEN getCommands(fs).v
    ELSE IF op \in {"get_skill", "ace://skills"} THEN getSkills(fs).v
    ELSE <<>>

RecordName(r) ==
    IF op \in {"get_rule", "ace://rules"} THEN stripRuleExt(r.fileName) ELSE r.fileName

SameButForCase(a, b) == toLowerCase(a) = toLowerCase(b)

\* C9: on both surfaces, a requested name that differs from a record's name
\* (fileName without its recognized extension) only in letter case resolves
\* to such a record.
C9_CaseInsensitiveLookup ==
    \A i \in 1..Len(LookupRecords) :
        SameButForCase(RecordName(LookupRecords[i]), arg) =>
            /\ out.ok
            /\ \E j \in 1..Len(LookupRecords) :
                 /\ SameButForCase(RecordName(LookupRecords[j]), arg)
                 /\ out.v = LookupRecords[j].content

\* The rule a.mdc asked for as ace://rules/A: nothing is returned, while
\* get_rule finds it under the same name.
C9_RuleResourceMisses ==
    /\ op = "ace://rules"
    /\ arg = <<"A">>
    /\ ~out.ok
    /\ get_rule(fs, arg).ok

-----------------------------------------------------------------------------
(* The orchestrators step by step (specification SpecAsync).  A call runs  *)
(* from one await to the next in one step: the step that resumes a task    *)
(* takes the reply of the filesystem operation the task waits for, runs    *)
(* the code up to the next operation and issues that one.  Steps of        *)
(* different calls, and of the sub-scans of one scanAsdlcCore call,        *)
(* interleave in any order.                                                *)

MaxCalls == 2     \* calls in flight at a time

CallIds == 1..MaxCalls

NoOp == [f |-> "none", path |-> <<>>]
FsOp(f, path) == [f |-> f, path |-> path]

ProjectSkillsDir == join(join(ProjectRoot, N_cursor), N_skills)
UserSkillsDir == join(join(UserRoot, N_cursor), N_skills)
ProjectCommandsDir == join(join(ProjectRoot, N_cursor), N_commands)
UserCommandsDir == join(join(UserRoot, N_cursor), N_commands)
AgentsMdPath == join(ProjectRoot, N_AGENTS_md)
SpecsPath == join(ProjectRoot, N_specs)
SchemasPath == join(ProjectRoot, N_schemas)

\* An async function in flight: where it waits, what for, and its locals.
Task(name, pc, pending, dir, location) ==
    [name |-> name, pc |-> pc, pending |-> pending, dir |-> dir, location |-> location,
     entries |-> <<>>, i |-> 1, stack |-> <<>>, files |-> <<>>, acc |-> <<>>,
     ret |-> Undefined]

Finished(t, ret) == [t EXCEPT !.pc = "done", !.pending = NoOp, !.ret = ret]
Waiting(t, pc, pending) == [t EXCEPT !.pc = pc, !.pending = pending]
Step(t, push) == [task |-> t, push |-> push]

\* scanSkillsCore: the two scanSkillsInDir calls, one after the other.
skillsNextRoot(t) ==
    IF t.location = "workspace"
    THEN [Waiting(t, "list", FsOp("readDirectory", UserSkillsDir))
            EXCEPT !.dir = UserSkillsDir, !.location = "global", !.entries = <<>>, !.i = 1]
    ELSE Finished(t, Undefined)

RECURSIVE skillsAdvance(_)
skillsAdvance(t) ==
    IF t.i > Len(t.entries) THEN skillsNextRoot(t)
    ELSE IF t.entries[t.i][2] # FileType.Directory THEN skillsAdvance([t EXCEPT !.i = @ + 1])
    ELSE Waiting(t, "read", FsOp("readFile", join(join(t.dir, t.entries[t.i][1]), N_SKILL_md)))

skillsResume(f, t) ==
    IF t.pc = "list"
    THEN LET entries == readDirectory(f, t.dir)
         IN  IF ~entries.ok THEN Step(skillsNextRoot(t), <<>>)
             ELSE Step(skillsAdvance([t EXCEPT !.entries = entries.v, !.i = 1]), <<>>)
    ELSE LET r == scanSkillsEntry(f, t.dir, t.entries[t.i][1], t.location)
         IN  IF ~r.ok THEN Step(skillsNextRoot(t), <<>>)
             ELSE Step(skillsAdvance([t EXCEPT !.i = @ + 1]), <<r.v>>)

skillsTasks == << Task("skills", "list", FsOp("readDirectory", ProjectSkillsDir),
                       ProjectSkillsDir, "workspace") >>

\* scanCommandsCore: listFilesFlat and the loop over its files, for the
\* project and then for the user.
commandsNextRoot(t) ==
    IF t.location = "workspace"
    THEN [Waiting(t, "list", FsOp("readDirectory", UserCommandsDir))
            EXCEPT !.dir = UserCommandsDir, !.location = "global", !.files = <<>>, !.i = 1]
    ELSE Finished(t, Undefined)

commandsAdvance(t) ==
    IF t.i > Len(t.files) THEN commandsNextRoot(t)
    ELSE Waiting(t, "read", FsOp("readFile", t.files[t.i]))

commandsResume(f, t) ==
    IF t.pc = "list"
    THEN LET files == listFilesFlat(f, t.dir, <<Ext_md>>, <<N_README_md>>)
         IN  Step(commandsAdvance([t EXCEPT !.files = files.v, !.i = 1]), <<>>)
    ELSE LET r == scanCommandsFile(f, t.files[t.i], t.location)
         IN  Step(commandsAdvance([t EXCEPT !.i = @ + 1]), <<r.v>>)

commandsTasks == << Task("commands", "list", FsOp("readDirectory", ProjectCommandsDir),
                         ProjectCommandsDir, "workspace") >>

\* scanRulesCore: listFilesRecursive's walk, with the directories it is in
\* on a stack, and then the loop over the files it found.
rulesAdvance(t) ==
    IF t.i > Len(t.files) THEN Finished(t, Undefined)
    ELSE Waiting(t, "read", FsOp("readFile", t.files[t.i]))

RECURSIVE rulesWalk(_)
rulesWalk(t) ==
    IF t.stack = <<>> THEN rulesAdvance([t EXCEPT !.i = 1])
    ELSE LET n == Len(t.stack)
             top == t.stack[n]
         IN  IF top.i > Len(top.entries)
             THEN rulesWalk([t EXCEPT !.stack = SubSeq(@, 1, n - 1)])
             ELSE LET name == top.entries[top.i][1]
                      fileType == top.entries[top.i][2]
                      on == [t EXCEPT !.stack[n].i = @ + 1]
                  IN  IF walkSkips(name) THEN rulesWalk(on)
                      ELSE IF fileType = FileType.Directory
                      THEN Waiting(on, "walk", FsOp("readDirectory", join(top.dir, name)))
                      ELSE rulesWalk([on EXCEPT !.files =
                               walkFile(@, top.dir, name, fileType,
                                        normalizeExtensions(<<Ext_mdc, Ext_md>>))])

rulesResume(f, t) ==
    IF t.pc = "walk"
    THEN LET entries == readDirectory(f, t.pending.path)
         IN  IF ~entries.ok THEN Step(rulesWalk(t), <<>>)
             ELSE Step(rulesWalk([t EXCEPT !.stack =
                          Append(@, [dir |-> t.pending.path, entries |-> entries.v, i |-> 1])]),
                       <<>>)
    ELSE LET r == scanRulesFile(f, t.files[t.i])
         IN  IF ~r.ok THEN Step(Waiting(t, "threw", NoOp), <<>>)
             ELSE Step(rulesAdvance([t EXCEPT !.i = @ + 1]), <<r.v>>)

rulesTasks == << Task("rules", "walk", FsOp("readDirectory", RulesDir), RulesDir, "workspace") >>

\* scanAgentsMdCore
agentsResume(f, t) ==
    IF t.pc = "stat"
    THEN LET st == stat(f, AgentsMdPath)
         IN  IF ~st.ok THEN Step(Finished(t, NoAgentsMd), <<>>)
             ELSE IF st.v.type # FileType.File THEN Step(Finished(t, NoAgentsMd), <<>>)
             ELSE Step(Waiting(t, "read", FsOp("readFile", AgentsMdPath)), <<>>)
    ELSE Step(Finished(t, scanAgentsMdCore(f, ProjectRoot)), <<>>)

\* scanSpecsCore
RECURSIVE specsAdvance(_)
specsAdvance(t) ==
    IF t.i > Len(t.entries)
    THEN Finished(t, [exists |-> TRUE, path |-> JPath(t.dir), specs |-> t.acc])
    ELSE IF t.entries[t.i][2] # FileType.Directory THEN specsAdvance([t EXCEPT !.i = @ + 1])
    ELSE Waiting(t, "statEntry", FsOp("stat", join(join(t.dir, t.entries[t.i][1]), N_spec_md)))

specsResume(f, t) ==
    IF t.pc = "stat"
    THEN LET st == stat(f, t.dir)
         IN  IF ~st.ok THEN Step(Finished(t, NoSpecs), <<>>)
             ELSE IF st.v.type # FileType.Directory THEN Step(Finished(t, NoSpecs), <<>>)
             ELSE Step(Waiting(t, "list", FsOp("readDirectory", t.dir)), <<>>)
    ELSE IF t.pc = "list"
    THEN LET entries == readDirectory(f, t.dir)
         IN  IF ~entries.ok THEN Step(Finished(t, NoSpecs), <<>>)
             ELSE Step(specsAdvance([t EXCEPT !.entries = entries.v, !.i = 1]), <<>>)
    ELSE IF t.pc = "statEntry"
    THEN LET st == stat(f, t.pending.path)
         IN  IF ~st.ok THEN Step(specsAdvance([t EXCEPT !.i = @ + 1]), <<>>)
             ELSE IF st.v.type # FileType.File THEN Step(specsAdvance([t EXCEPT !.i = @ + 1]), <<>>)
             ELSE Step(Waiting(t, "read", FsOp("readFile", t.pending.path)), <<>>)
    ELSE Step(specsAdvance([t EXCEPT !.i = @ + 1,
                                     !.acc = @ \o scanSpecsEntry(f, t.dir, t.entries[t.i][1])]),
              <<>>)

\* scanSchemasCore
RECURSIVE schemasAdvance(_)
schemasAdvance(t) ==
    IF t.i > Len(t.entries)
    THEN Finished(t, [exists |-> TRUE, path |-> JPath(t.dir), schemas |-> t.acc])
    ELSE IF (t.entries[t.i][2] # FileType.File /\ t.entries[t.i][2] # FileType.SymbolicLink)
            \/ ~endsWith(t.entries[t.i][1], Ext_json)
    THEN schemasAdvance([t EXCEPT !.i = @ + 1])
    ELSE Waiting(t, "read", FsOp("readFile", join(t.dir, t.entries[t.i][1])))

schemasResume(f, t) ==
    IF t.pc = "stat"
    THEN LET st == stat(f, t.dir)
         IN  IF ~st.ok THEN Step(Finished(t, NoSchemas), <<>>)
             ELSE IF st.v.type # FileType.Directory THEN Step(Finished(t, NoSchemas), <<>>)
             ELSE Step(Waiting(t, "list", FsOp("readDirectory", t.dir)), <<>>)
    ELSE IF t.pc = "list"
    THEN LET entries == readDirectory(f, t.dir)
         IN  IF ~entries.ok THEN Step(Finished(t, NoSchemas), <<>>)
             ELSE Step(schemasAdvance([t EXCEPT !.entries = entries.v, !.i = 1]), <<>>)
    ELSE Step(schemasAdvance([t EXCEPT !.i = @ + 1,
                                       !.acc = Append(@, scanSchemasEntry(f, t.dir,
                                                                          t.entries[t.i][1]))]),
              <<>>)

\* scanAsdlcCore: Promise.all over the three sub-scans, each called, and so
\* each with its first operation issued, before any of them is awaited.
asdlcTasks_OneByOne ==
    << Task("agentsMd", "stat", FsOp("stat", AgentsMdPath), AgentsMdPath, "workspace"),
       Task("specs", "stat", NoOp, SpecsPath, "workspace"),
       Task("schemas", "stat", NoOp, SchemasPath, "workspace") >>

asdlcTasks ==
    << Task("agentsMd", "stat", FsOp("stat", AgentsMdPath), AgentsMdPath, "workspace"),
       Task("specs", "stat", FsOp("stat", SpecsPath), SpecsPath, "workspace"),
       Task("schemas", "stat", FsOp("stat", SchemasPath), SchemasPath, "workspace") >>

resume(f, t) ==
    IF t.name = "rules" THEN rulesResume(f, t)
    ELSE IF t.name = "commands" THEN commandsResume(f, t)
    ELSE IF t.name = "skills" THEN skillsResume(f, t)
    ELSE IF t.name = "agentsMd" THEN agentsResume(f, t)
    ELSE IF t.name = "specs" THEN specsResume(f, t)
    ELSE schemasResume(f, t)

\* The array a call pushes its records onto: its own, made at its start.
resultsOwner_Shared(i) == 1

resultsOwner(i) == i

\* Whether the awaited sub-scans of a call have all completed.
joined(c) == \A k \in 1..Len(c.tasks) : c.tasks[k].pc \in {"done", "threw"}

\* What the call resolves to.
callResult(c, results) ==
    IF \E k \in 1..Len(c.tasks) : c.tasks[k].pc = "threw" THEN Err
    ELSE IF c.kind = "asdlc"
    THEN Ok(asdlcBundle(c.tasks[1].ret, c.tasks[2].ret, c.tasks[3].ret))
    ELSE Ok(results)

Idle ==
    [kind |-> "none", status |-> "idle", tasks |-> <<>>, results |-> <<>>,
     issued |-> {}, result |-> Ok(<<>>), overlap |-> FALSE]

Pending(c) == { c.tasks[k].pending : k \in 1..Len(c.tasks) } \ {NoOp}

OthersRunning(i) == \E j \in CallIds \ {i} : calls[j].status = "running"

\* One filesystem with something of everything, and three without.
EverythingFs ==
    MkFs([rules |-> DirNode(Ok(ExampleForest)),
          commands |-> DirNode(Ok(<< Entry(F_x_md, FileType.File, FileNode(Ok(T_plain))),
                                     Entry(F_z_md, FileType.File, FileNode(Err)) >>)),
          gcommands |-> DirNode(Ok(<< Entry(F_x_md, FileType.File, FileNode(Ok(T_nodesc))) >>)),
          skills |-> DirNode(Ok(<< Entry(K_k1, FileType.Directory, DirNode(Ok(<<>>))),
                                   Entry(K_K2, FileType.Directory, DirNode(Ok(
                                     << Entry(N_SKILL_md, FileType.File,
                                              FileNode(Ok(T_skillfm))) >>))) >>)),
          gskills |-> DirNode(Ok(<< Entry(K_g, FileType.Directory, DirNode(Ok(
                                     << Entry(N_SKILL_md, FileType.File,
                                              FileNode(Ok(T_plain))) >>))) >>)),
          agents |-> FileNode(Ok(T_plain)),
          specs |-> DirNode(Ok(<< Entry(<<"d", "1">>, FileType.Directory, DirNode(Ok(
                                   << Entry(N_spec_md, FileType.File,
                                            FileNode(Ok(T_blueprint))) >>))) >>)),
          schemas |-> DirNode(Ok(<< Entry(F_s_json, FileType.File, FileNode(Ok(J_dollar))) >>))])

AsyncFamily ==
    { EverythingFs,
      MkFs(Nothing),
      MkFs([Nothing EXCEPT !.skills = DirNode(Err),
                           !.gskills = DirNode(Ok(<< Entry(K_g, FileType.Directory,
                                                           DirNode(Ok(<<>>))) >>)),
                           !.agents = FileNode(Err),
                           !.specs = DirNode(Err)]),
      MkFs([Nothing EXCEPT !.rules = DirNode(Ok(
                               << Entry(F_a_mdc, FileType.File, FileNode(Err)),
                                  Entry(D_sub, FileType.Directory, DirNode(Err)) >>)),
                           !.gcommands = DirNode(Ok(
                               << Entry(F_x_md, FileType.File, FileNode(Ok(T_plain))) >>)),
                           !.agents = FileNode(Ok(EmptyText)),
                           !.schemas = FileNode(Ok(J_id))]) }

InitAsync ==
    /\ fs \in AsyncFamily
    /\ op = "none"
    /\ arg = <<>>
    /\ out = <<>>
    /\ lines = <<>>
    /\ sections = <<>>
    /\ calls = [i \in CallIds |-> Idle]

\* The call is made: its array is new, and the first operation of each of
\* its tasks is issued.
Started(i, kind, tasks) ==
    LET fresh == [calls EXCEPT ![resultsOwner(i)].results = <<>>]
        begun == [fresh EXCEPT ![i].kind = kind,
                               ![i].status = "running",
                               ![i].tasks = tasks,
                               ![i].issued = { tasks[k].pending : k \in 1..Len(tasks) } \ {NoOp},
                               ![i].overlap = OthersRunning(i)]
    IN  [j \in CallIds |->
           IF j # i /\ begun[j].status = "running" THEN [begun[j] EXCEPT !.overlap = TRUE]
           ELSE begun[j]]

StartRules ==
    \E i \in CallIds :
        /\ calls[i].status = "idle"
        /\ calls' = Started(i, "rules", rulesTasks)
        /\ UNCHANGED <<fs, op, arg, out, lines, sections>>

StartCommands ==
    \E i \in CallIds :
        /\ calls[i].status = "idle"
        /\ calls' = Started(i, "commands", commandsTasks)
        /\ UNCHANGED <<fs, op, arg, out, lines, sections>>

StartSkills ==
    \E i \in CallIds :
        /\ calls[i].status = "idle"
        /\ calls' = Started(i, "skills", skillsTasks)
        /\ UNCHANGED <<fs, op, arg, out, lines, sections>>

StartAsdlc ==
    \E i \in CallIds :
        /\ calls[i].status = "idle"
        /\ calls' = Started(i, "asdlc", asdlcTasks)
        /\ UNCHANGED <<fs, op, arg, out, lines, sections>>

\* The operation a task waits for completes, and the task runs on.
Resume ==
    \E i \in CallIds : \E k \in 1..Len(calls[i].tasks) :
        /\ calls[i].status = "running"
        /\ calls[i].tasks[k].pending # NoOp
        /\ LET s == resume(fs, calls[i].tasks[k])
               stepped == [calls EXCEPT ![i].tasks[k] = s.task,
                                        ![i].issued = @ \cup ({s.task.pending} \ {NoOp})]
           IN  calls' = [stepped EXCEPT ![resultsOwner(i)].results = @ \o s.push]
        /\ UNCHANGED <<fs, op, arg, out, lines, sections>>

\* The call resolves.
Return ==
    \E i \in CallIds :
        /\ calls[i].status = "running"
        /\ joined(calls[i])
        /\ calls' = [calls EXCEPT ![i].status = "returned",
                                  ![i].result = callResult(calls[i],
                                                           calls[resultsOwner(i)].results)]
        /\ UNCHANGED <<fs, op, arg, out, lines, sections>>

\* The caller has the result; it may call again.
Collect ==
    \E i \in CallIds :
        /\ calls[i].status = "returned"
        /\ calls' = [calls EXCEPT ![i] = Idle]
        /\ UNCHANGED <<fs, op, arg, out, lines, sections>>

NextAsync ==
    \/ StartRules
    \/ StartCommands
    \/ StartSkills
    \/ StartAsdlc
    \/ Resume
    \/ Return
    \/ Collect

SpecAsync == InitAsync /\ [][NextAsync]_vars

\* What a call of the kind returns when it runs alone.
Alone(kind) ==
    IF kind = "rules" THEN scanRulesCore(fs, ProjectRoot, UserRoot)
    ELSE IF kind = "commands" THEN scanCommandsCore(fs, ProjectRoot, UserRoot)
    ELSE IF kind = "skills" THEN scanSkillsCore(fs, ProjectRoot, UserRoot)
    ELSE scanAsdlcCore(fs, ProjectRoot)

\* C5: however the steps of two calls interleave, each call returns what it
\* returns when it runs alone on the filesystem, so that two calls of one
\* orchestrator, concurrent or one after the other, return equal results.
C5_CallsDoNotInterfere ==
    /\ \A i \in CallIds :
         calls[i].status = "returned" => calls[i].result = Alone(calls[i].kind)
    /\ \A i, j \in CallIds :
         (/\ calls[i].status = "returned" /\ calls[j].status = "returned"
          /\ calls[i].kind = calls[j].kind) => calls[i].result = calls[j].result

\* Two calls that were in flight together have both returned records.
C5_Witness ==
    /\ \A i \in CallIds :
         /\ calls[i].status = "returned" /\ calls[i].overlap
         /\ calls[i].result.ok
    /\ calls[1].kind = "skills" /\ Len(calls[1].result.v) = 3
    /\ calls[2].kind = "rules" /\ Len(calls[2].result.v) = 2

IsTwoRoots(c) == c.kind \in {"commands", "skills"}
WorkspaceListing(c) ==
    FsOp("readDirectory", IF c.kind = "skills" THEN ProjectSkillsDir ELSE ProjectCommandsDir)
GlobalListing(c) ==
    FsOp("readDirectory", IF c.kind = "skills" THEN UserSkillsDir ELSE UserCommandsDir)
FirstStats == { FsOp("stat", AgentsMdPath), FsOp("stat", SpecsPath), FsOp("stat", SchemasPath) }

WorkspaceRecords(records) == SelectSeq(records, LAMBDA r : r.location = "workspace")

\* The join: a call that has returned has no sub-scan left unfinished.
ReturnsAfterAll ==
    \A i \in CallIds :
        calls[i].status = "returned" =>
            /\ Pending(calls[i]) = {}
            /\ \A k \in 1..Len(calls[i].tasks) : calls[i].tasks[k].pc = "done"

AsdlcIssuedTogether ==
    \A i \in CallIds :
        calls[i].kind = "asdlc" => FirstStats \subseteq calls[i].issued

\* C6 as stated: within a scanCommandsCore or scanSkillsCore call the
\* global root's listing is issued together with the workspace root's, not
\* after the workspace sub-scan; within scanAsdlcCore the three sub-scans
\* are issued together; and a call returns only after all its sub-scans
\* have completed.
C6_AllSubScansConcurrent ==
    /\ \A i \in CallIds :
         (IsTwoRoots(calls[i]) /\ WorkspaceListing(calls[i]) \in calls[i].issued)
             => GlobalListing(calls[i]) \in calls[i].issued
    /\ AsdlcIssuedTogether
    /\ ReturnsAfterAll

\* C6, amended: within a scanCommandsCore or scanSkillsCore call the global
\* root's listing is issued only once the workspace sub-scan has finished
\* (all the workspace records are there, and no operation is outstanding
\* but that listing), one operation being outstanding at a time; within
\* scanAsdlcCore the three sub-scans are issued together; and a call returns
\* only after all its sub-scans have completed.
C6_RootsInTurnCategoriesTogether ==
    /\ \A i \in CallIds :
         IsTwoRoots(calls[i]) =>
             /\ Cardinality(Pending(calls[i])) <= 1
             /\ GlobalListing(calls[i]) \in calls[i].issued =>
                  /\ Pending(calls[i]) \subseteq
                       (calls[i].issued \ { o \in calls[i].issued :
                            IsPrefix(WorkspaceListing(calls[i]).path, o.path) })
                  /\ WorkspaceRecords(calls[i].results)
                       = WorkspaceRecords(Alone(calls[i].kind).v)
    /\ AsdlcIssuedTogether
    /\ ReturnsAfterAll

\* A scanSkillsCore call that lists the global root with its workspace
\* records in hand, beside a scanAsdlcCore call with its three first
\* operations outstanding at once.
C6_Witness ==
    /\ calls[1].kind = "skills" /\ calls[1].status = "running"
    /\ Pending(calls[1]) = {GlobalListing(calls[1])}
    /\ Len(calls[1].results) = 2
    /\ calls[2].kind = "asdlc" /\ calls[2].status = "running"
    /\ Pending(calls[2]) = FirstStats

-----------------------------------------------------------------------------
(* Commands (specification Spec).                                          *)

CommandRoots ==
    << [dir |-> ProjectCommandsDir, location |-> "workspace"],
       [dir |-> UserCommandsDir, location |-> "global"] >>

\* The command files of a root: what its listing gives, in its order, or
\* none when it cannot be listed.
CommandFilesOf(root) == listFilesFlat(fs, root.dir, <<Ext_md>>, <<N_README_md>>).v

\* The entry of a command file, its content replaced when it is not read.
CommandEntryOf(root, filePath) ==
    [path |-> filePath,
     fileName |-> basenameExt(filePath, Ext_md),
     location |-> root.location,
     content |-> IF readFile(fs, filePath).ok THEN readFile(fs, filePath).v ELSE ErrorContent]

CommandEntriesOf(root) ==
    [k \in 1..Len(CommandFilesOf(root)) |-> CommandEntryOf(root, CommandFilesOf(root)[k])]

\* C11: a read failure on a command file changes only that file's entry,
\* which is still returned with its path, fileName and location and with
\* the content "Error reading file content"; every other entry, of either
\* root, is as it is without the failure, and the call does not reject.
C11_CommandReadFailure ==
    (op = "scanCommands") =>
        /\ out.ok
        /\ out.v = CommandEntriesOf(CommandRoots[1]) \o CommandEntriesOf(CommandRoots[2])

\* A file that is not read between files that are, in both roots.
C11_Witness ==
    /\ op = "scanCommands"
    /\ out.ok
    /\ \E i, j, k \in 1..Len(out.v) :
         /\ out.v[i].content = ErrorContent /\ out.v[i].location = "workspace"
         /\ out.v[j].content # ErrorContent /\ out.v[j].location = "workspace"
         /\ out.v[k].content = ErrorContent /\ out.v[k].location = "global"
         /\ ~readFile(fs, out.v[i].path).ok

-----------------------------------------------------------------------------
(* scanCommandsCore with its roots as inputs (specification SpecCommands); *)
(* the workspace can be the user's home directory, and then both roots are *)
(* one directory.                                                          *)

CommandsFamily ==
    { MkFs([Nothing EXCEPT !.commands = c, !.gcommands = g]) :
        c \in CommandsNodes, g \in GlobalCommandsNodes }

InitCommands ==
    /\ fs \in CommandsFamily
    /\ op = "none"
    /\ arg = <<>>
    /\ out = <<>>
    /\ lines = <<>>
    /\ sections = <<>>
    /\ calls = <<>>

ScanCommandsIn ==
    \E projectRoot \in {ProjectRoot, UserRoot} :
        /\ op' = "scanCommands"
        /\ arg' = <<projectRoot, UserRoot>>
        /\ out' = scanCommandsCore(fs, projectRoot, UserRoot)
        /\ UNCHANGED <<fs, lines, sections, calls>>

NextCommands == ScanCommandsIn

SpecCommands == InitCommands /\ [][NextCommands]_vars

CommandsDirOf(root) == join(join(root, N_cursor), N_commands)

\* The path is that of an immediate child of the directory.
LiesIn(filePath, dir) == Len(filePath) = Len(dir) + 1 /\ IsPrefix(dir, filePath)

WorkspaceBeforeGlobal ==
    \A i, j \in 1..Len(out.v) :
        (out.v[i].location = "workspace" /\ out.v[j].location = "global") => i < j

NoReadmeEntry ==
    \A k \in 1..Len(out.v) : basename(out.v[k].path) # N_README_md

\* C20: the workspace entries come before the global entries; an entry is
\* tagged workspace exactly when its path lies in
\* {projectRoot}/.cursor/commands and global exactly when it lies in
\* {userRoot}/.cursor/commands; no entry is for a file named README.md.
C20_WorkspaceThenGlobal ==
    (op = "scanCommands") =>
        /\ out.ok
        /\ WorkspaceBeforeGlobal
        /\ NoReadmeEntry
        /\ \A k \in 1..Len(out.v) :
             /\ out.v[k].location = "workspace" <=> LiesIn(out.v[k].path, CommandsDirOf(arg[1]))
             /\ out.v[k].location = "global" <=> LiesIn(out.v[k].path, CommandsDirOf(arg[2]))

\* C20, amended: the workspace entries come before the global entries and
\* no entry is for a README.md; an entry tagged workspace lies in the
\* project's commands directory and one tagged global in the user's; the
\* tags are exact when the two directories differ, and when they are one
\* directory every command file of it is returned twice, first tagged
\* workspace and then tagged global.
C20_TagsByRoot ==
    (op = "scanCommands") =>
        /\ out.ok
        /\ WorkspaceBeforeGlobal
        /\ NoReadmeEntry
        /\ \A k \in 1..Len(out.v) :
             /\ out.v[k].location \in {"workspace", "global"}
             /\ out.v[k].location = "workspace" => LiesIn(out.v[k].path, CommandsDirOf(arg[1]))
             /\ out.v[k].location = "global" => LiesIn(out.v[k].path, CommandsDirOf(arg[2]))
             /\ (arg[1] # arg[2] /\ LiesIn(out.v[k].path, CommandsDirOf(arg[1])))
                   => out.v[k].location = "workspace"
             /\ (arg[1] # arg[2] /\ LiesIn(out.v[k].path, CommandsDirOf(arg[2])))
                   => out.v[k].location = "global"
        /\ (arg[1] = arg[2]) =>
             \E n \in 0..Len(out.v) :
                /\ Len(out.v) = 2 * n
                /\ \A k \in 1..n :
                     /\ out.v[k].location = "workspace"
                     /\ out.v[n + k] = [out.v[k] EXCEPT !.location = "global"]

\* Both roots, different, have a README.md beside a command file, and both
\* are scanned.
C20_Witness ==
    /\ op = "scanCommands"
    /\ arg[1] # arg[2]
    /\ out.ok
    /\ \A r \in 1..2 :
         LET entries == readDirectory(fs, CommandsDirOf(arg[r]))
         IN  /\ entries.ok
             /\ \E i \in 1..Len(entries.v) : entries.v[i][1] = N_README_md
             /\ \E k \in 1..Len(out.v) : out.v[k].location = CommandRoots[r].location

\* The workspace is the home directory, which has a command file.
C20_SameRoots ==
    /\ op = "scanCommands"
    /\ arg[1] = arg[2]
    /\ out.ok
    /\ Len(out.v) = 2

-----------------------------------------------------------------------------
(* listFilesFlat on its own (specification SpecFlat).                      *)

FlatEntries ==
    CommandEntries
    \cup { Entry(D_sub, FileType.Directory,
                 DirNode(Ok(<< Entry(F_x_md, FileType.File, FileNode(Ok(T_plain))) >>))),
           Entry(F_d_md, FileType.Unknown,
                 [stat |-> Ok(FileType.Unknown), read |-> Err, list |-> Err]) }

FlatFamily ==
    { MkFs([Nothing EXCEPT !.commands = k]) :
        k \in { DirNode(Ok(l)) : l \in FlatListings(FlatEntries, MaxFiles) }
              \cup { DirNode(Err), FileNode(Ok(T_plain)), Missing } }

ExcludeLists == { <<>>, <<N_README_md>>, <<F_x_md, N_README_md>> }

InitFlat ==
    /\ fs \in FlatFamily
    /\ op = "none"
    /\ arg = <<>>
    /\ out = <<>>
    /\ lines = <<>>
    /\ sections = <<>>
    /\ calls = <<>>

ListFilesFlat ==
    \E extensions \in ExtensionLists, excludeNames \in ExcludeLists :
        /\ op' = "listFilesFlat"
        /\ arg' = <<extensions, excludeNames>>
        /\ out' = listFilesFlat(fs, ProjectCommandsDir, extensions, excludeNames)
        /\ UNCHANGED <<fs, lines, sections, calls>>

NextFlat == ListFilesFlat

SpecFlat == InitFlat /\ [][NextFlat]_vars

\* The indices of the children of the directory that the listing is to
\* return: File or SymbolicLink, extension allowed, name not excluded.
FlatChildren(entries, extensions, excludeNames) ==
    { i \in 1..Len(entries) :
        /\ entries[i][2] \in {FileType.File, FileType.SymbolicLink}
        /\ \E e \in 1..Len(extensions) :
             toLowerCase(extname(entries[i][1]))
               = (IF extensions[e][1] = "." THEN toLowerCase(extensions[e])
                  ELSE Dot \o toLowerCase(extensions[e]))
        /\ \A x \in 1..Len(excludeNames) : excludeNames[x] # entries[i][1] }

\* C12: listFilesFlat returns exactly the immediate children of the
\* directory that are of kind File or SymbolicLink, with an allowed
\* lower-cased extension and a name that is not excluded, in the order of
\* the listing; nothing from a subdirectory; and the empty sequence, not a
\* failure, when the directory cannot be listed.
C12_FlatListing ==
    (op = "listFilesFlat") =>
        LET entries == readDirectory(fs, ProjectCommandsDir)
            wanted == IF entries.ok THEN FlatChildren(entries.v, arg[1], arg[2]) ELSE {}
        IN  /\ out.ok
            /\ Len(out.v) = Cardinality(wanted)
            /\ \A k \in 1..Len(out.v) :
                 /\ Len(out.v[k]) = Len(ProjectCommandsDir) + 1
                 /\ \E i \in wanted :
                      /\ out.v[k] = join(ProjectCommandsDir, entries.v[i][1])
                      /\ Cardinality({ j \in wanted : j < i }) = k - 1

\* A directory with a subdirectory that holds a matching file and with one
\* matching file of its own, listed with README.md excluded.
C12_Witness ==
    /\ op = "listFilesFlat"
    /\ arg[2] = <<N_README_md>>
    /\ LET entries == readDirectory(fs, ProjectCommandsDir)
       IN  /\ entries.ok
           /\ \E i \in 1..Len(entries.v) : entries.v[i][1] = D_sub
    /\ out.ok /\ Len(out.v) = 1

-----------------------------------------------------------------------------
(* scanAsdlcCore over the three places (specification SpecAsdlc).          *)

StatFails(node) == [node EXCEPT !.stat = Err]

AsdlcSpecsNodes ==
    SpecsFew \cup { FileNode(Ok(T_plain)), StatFails(DirNode(Ok(<<>>))) }

AsdlcSchemasNodes ==
    SchemasFew \cup { DirNode(Err), StatFails(DirNode(Ok(<<>>))) }

AsdlcFamily ==
    { MkFs([Nothing EXCEPT !.agents = a, !.specs = s, !.schemas = j]) :
        a \in AgentsNodes, s \in AsdlcSpecsNodes, j \in AsdlcSchemasNodes }

InitAsdlc ==
    /\ fs \in AsdlcFamily
    /\ op = "none"
    /\ arg = <<>>
    /\ out = <<>>
    /\ lines = <<>>
    /\ sections = <<>>
    /\ calls = <<>>

NextAsdlc == ScanAsdlc

SpecAsdlc == InitAsdlc /\ [][NextAsdlc]_vars

\* The two filesystems are the same at the path and below it.
SameSubtree(f, g, p) == Resolve(f, p) = Resolve(g, p)

\* C13: each sub-scan's result depends only on its own path and subtree:
\* whatever filesystem agrees with this one on AGENTS.md, on specs/ or on
\* schemas/ gives the same result for that category, whatever the other two
\* categories hold.
C13_SubScansIndependent ==
    (op = "scanAsdlc") =>
        \A g \in AsdlcFamily :
            LET other == scanAsdlcCore(g, ProjectRoot)
            IN  /\ other.ok /\ out.ok
                /\ SameSubtree(fs, g, AgentsMdPath) => other.v.agentsMd = out.v.agentsMd
                /\ SameSubtree(fs, g, SpecsPath) => other.v.specs = out.v.specs
                /\ SameSubtree(fs, g, SchemasPath) => other.v.schemas = out.v.schemas

\* A scan that found AGENTS.md, of a filesystem that has another in the
\* family with the same AGENTS.md and different specs/ and schemas/
\* results.
C13_Witness ==
    /\ op = "scanAsdlc"
    /\ out.ok
    /\ out.v.agentsMd.exists /\ out.v.specs.exists /\ ~out.v.schemas.exists
    /\ \E g \in AsdlcFamily :
         /\ SameSubtree(fs, g, AgentsMdPath)
         /\ ~scanAsdlcCore(g, ProjectRoot).v.specs.exists
         /\ scanAsdlcCore(g, ProjectRoot).v.schemas.exists

\* The place cannot be used as the category needs it: its stat fails, it is
\* of the wrong kind, or the read or listing that follows fails.
AgentsMdUnusable ==
    \/ ~stat(fs, AgentsMdPath).ok
    \/ stat(fs, AgentsMdPath).v.type # FileType.File
    \/ ~readFile(fs, AgentsMdPath).ok

DirUnusable(p) ==
    \/ ~stat(fs, p).ok
    \/ stat(fs, p).v.type # FileType.Directory
    \/ ~readDirectory(fs, p).ok

\* C14: when the stat of AGENTS.md, specs/ or schemas/ fails, or the path
\* is of the wrong kind, or the read or listing after it fails, that
\* category is reported with exists = false and an empty sequence, and
\* scanAsdlcCore does not fail.
C14_UnusableCategoryIsAbsent ==
    (op = "scanAsdlc") =>
        /\ out.ok
        /\ AgentsMdUnusable =>
             (~out.v.agentsMd.exists /\ out.v.agentsMd.sections = <<>>)
        /\ DirUnusable(SpecsPath) => (~out.v.specs.exists /\ out.v.specs.specs = <<>>)
        /\ DirUnusable(SchemasPath) =>
             (~out.v.schemas.exists /\ out.v.schemas.schemas = <<>>)

\* AGENTS.md is a file that cannot be read, specs/ has a stat but no
\* listing, and schemas/ is a file.
C14_Witness ==
    /\ op = "scanAsdlc"
    /\ out.ok
    /\ stat(fs, AgentsMdPath).ok /\ stat(fs, AgentsMdPath).v.type = FileType.File
    /\ ~readFile(fs, AgentsMdPath).ok
    /\ stat(fs, SpecsPath).ok /\ stat(fs, SpecsPath).v.type = FileType.Directory
    /\ ~readDirectory(fs, SpecsPath).ok
    /\ stat(fs, SchemasPath).ok /\ stat(fs, SchemasPath).v.type = FileType.File

\* The stat of each of the three places fails.
C14_StatFails ==
    /\ op = "scanAsdlc"
    /\ ~stat(fs, AgentsMdPath).ok /\ Resolve(fs, AgentsMdPath) # Missing
    /\ ~stat(fs, SpecsPath).ok /\ Resolve(fs, SpecsPath) # Missing
    /\ ~stat(fs, SchemasPath).ok /\ Resolve(fs, SchemasPath) # Missing

-----------------------------------------------------------------------------
(* scanRulesCore over the frontmatters of one rule file (specification     *)
(* SpecRuleText).                                                          *)

MaxFrontLines == 2

\* The scalars a description is given as: a word, the empty string, the
\* empty sequence, a sequence, the booleans and null.
FrontLines ==
    { <<"description", ":", " ", v>> : v \in {"d1", "''", "[]", "[*.ts]", "true", "false", "~"} }
    \cup { <<"alwaysApply", ":", " ", "true">>, <<"{", "bad">> }

FrontBlocks == UNION { [1..n -> FrontLines] : n \in 0..MaxFrontLines }

RuleTexts ==
    { <<DelimLine>> \o b \o <<DelimLine, <<"x">> >> : b \in FrontBlocks }
    \cup { T_plain }

RuleTextFamily ==
    { MkFs([Nothing EXCEPT !.rules = DirNode(Ok(<< Entry(n, FileType.File, FileNode(r)) >>))]) :
        n \in {F_a_mdc, F_d_md}, r \in { Ok(t) : t \in RuleTexts } \cup {Err} }

InitRuleText ==
    /\ fs \in RuleTextFamily
    /\ op = "none"
    /\ arg = <<>>
    /\ out = <<>>
    /\ lines = <<>>
    /\ sections = <<>>
    /\ calls = <<>>

NextRuleText == ScanRules

SpecRuleText == InitRuleText /\ [][NextRuleText]_vars

ErrorDescription == JStr(<<"Error parsing file">>)
NoDescription == JStr(<<"No description">>)

\* The value is there and is not an empty string or an empty sequence.
NonEmpty(x) ==
    /\ x.t \in {"string", "text", "path", "boolean", "array"}
    /\ x.t \in {"string", "text", "path", "array"} => x.v # <<>>

\* The file of the rule cannot be read, or its frontmatter is not extracted.
RuleFails(rule) ==
    \/ ~readFile(fs, rule.path).ok
    \/ ~matter(readFile(fs, rule.path).v).ok

FrontDescription(rule) == Field(matter(readFile(fs, rule.path).v).v.data, "description")

\* C15: every Rule of scanRulesCore has a description that is there and is
\* not empty: the description of the frontmatter when it has one, "No
\* description" when it has none, "Error parsing file" when the read or the
\* extraction of the frontmatter fails.
C15_DescriptionNonEmpty ==
    (op = "scanRules") =>
        /\ out.ok
        /\ \A k \in 1..Len(out.v) :
             LET rule == out.v[k]
                 d == rule.metadata.description
             IN  /\ NonEmpty(d)
                 /\ RuleFails(rule) => d = ErrorDescription
                 /\ (~RuleFails(rule) /\ NonEmpty(FrontDescription(rule)))
                       => d = FrontDescription(rule)
                 /\ (~RuleFails(rule) /\ FrontDescription(rule) = Undefined)
                       => d = NoDescription

\* C15, what the code keeps: every Rule has a description that is there
\* and is truthy: the description of the frontmatter when that is truthy
\* (an empty sequence is), "No description" when the frontmatter has none
\* or a falsy one, "Error parsing file" when the read or the extraction
\* fails.
C15_DescriptionTruthy ==
    (op = "scanRules") =>
        /\ out.ok
        /\ \A k \in 1..Len(out.v) :
             LET rule == out.v[k]
                 d == rule.metadata.description
             IN  /\ Truthy(d)
                 /\ RuleFails(rule) => d = ErrorDescription
                 /\ (~RuleFails(rule) /\ Truthy(FrontDescription(rule)))
                       => d = FrontDescription(rule)
                 /\ (~RuleFails(rule) /\ ~Truthy(FrontDescription(rule)))
                       => d = NoDescription

\* The three cases in turn: a description taken from the frontmatter, the
\* default for a frontmatter without one, the sentinel for a bad one.
C15_Witness ==
    /\ op = "scanRules"
    /\ out.ok /\ Len(out.v) = 1
    /\ ~RuleFails(out.v[1])
    /\ out.v[1].metadata.description.t = "string"
    /\ out.v[1].metadata.description.v = <<"d1">>

C15_WitnessDefault ==
    /\ op = "scanRules"
    /\ out.ok /\ Len(out.v) = 1
    /\ ~RuleFails(out.v[1])
    /\ FrontDescription(out.v[1]).t = "string"
    /\ FrontDescription(out.v[1]).v = <<>>
    /\ out.v[1].metadata.description.t = "string"
    /\ out.v[1].metadata.description = NoDescription

C15_WitnessError ==
    /\ op = "scanRules"
    /\ out.ok /\ Len(out.v) = 1
    /\ readFile(fs, out.v[1].path).ok
    /\ RuleFails(out.v[1])
    /\ out.v[1].metadata.description = ErrorDescription

\* The frontmatter gives the description as the empty sequence.
C15_EmptySequence ==
    /\ op = "scanRules"
    /\ out.ok /\ Len(out.v) = 1
    /\ out.v[1].metadata.description.t = "array"
    /\ out.v[1].metadata.description.v = <<>>

-----------------------------------------------------------------------------
(* parseSKILLMetadata over documents (specification SpecSkillText).        *)

MaxBodyLines == 3

\* The frontmatters: none, an empty one, one with a key, one that the YAML
\* parser rejects.
SkillFronts ==
    { <<>>,
      <<DelimLine, DelimLine>>,
      <<DelimLine, <<"title", ":", " ", "S1">>, DelimLine>>,
      <<DelimLine, <<"steps", ":", " ", "[]">>, DelimLine>>,
      <<DelimLine, <<"{", "bad">>, DelimLine>> }

SkillBodyLines ==
    { <<"#", " ", "H">>,
      <<"#">>,
      <<"#", "#", " ", "H">>,
      <<"x">>,
      <<>> }

SkillBodies == UNION { [1..n -> SkillBodyLines] : n \in 0..MaxBodyLines }

SkillDocuments == { f \o b : f \in SkillFronts, b \in SkillBodies } \ { <<>> }

InitSkillText ==
    /\ lines \in SkillDocuments
    /\ sections = <<>>
    /\ op = "none"
    /\ arg = <<>>
    /\ out = <<>>
    /\ fs = NoFs
    /\ calls = <<>>

ParseSKILLMetadata ==
    /\ op' = "parseSKILLMetadata"
    /\ out' = parseSKILLMetadata(lines)
    /\ UNCHANGED <<fs, arg, lines, sections, calls>>

NextSkillText == ParseSKILLMetadata

SpecSkillText == InitSkillText /\ [][NextSkillText]_vars

\* The frontmatter mapping was extracted and has a key.
HasFrontmatterKeys(text) == matter(text).ok /\ DOMAIN matter(text).v.data # {}

\* A line of the document is a level-1 heading: "#", white space, text.
HasLevel1Heading(text) ==
    \E i \in 1..Len(text) : headingMatch(text[i]).ok /\ Len(headingMatch(text[i]).v[1]) = 1

\* C16: parseSKILLMetadata returns a record if and only if the frontmatter
\* mapping was extracted with at least one key or the document has a
\* level-1 heading; in every other case, a failed extraction without such a
\* heading included, it returns absent.
C16_RecordIffFrontmatterOrHeading ==
    (op = "parseSKILLMetadata") =>
        (out # Undefined <=> (HasFrontmatterKeys(lines) \/ HasLevel1Heading(lines)))

\* The half of C16 that holds: with a frontmatter key or a level-1 heading
\* there is a record.
C16_RecordWhenFrontmatterOrHeading ==
    (op = "parseSKILLMetadata") =>
        ((HasFrontmatterKeys(lines) \/ HasLevel1Heading(lines)) => out # Undefined)

\* A lone "#" line with text on a later line, no frontmatter and no
\* heading: a record is returned, its title taken from the later line.
C16_LoneHash ==
    /\ op = "parseSKILLMetadata"
    /\ lines = << <<"#">>, <<"x">> >>
    /\ out # Undefined
    /\ out.title = JStr(<<"x">>)

\* A failed extraction and no heading: absent.
C16_FailedExtractionAbsent ==
    /\ op = "parseSKILLMetadata"
    /\ ~matter(lines).ok
    /\ ~HasLevel1Heading(lines)
    /\ out = Undefined

-----------------------------------------------------------------------------
(* NodeFsAdapter, VSCodeFsAdapter                                          *)
(* (src/src/scanner/adapters/nodeFsAdapter.ts; specification SpecAdapters) *)

MaxEntries == 2

\* What a Dirent or a Stats of Node says it is.
NodeKinds == {"file", "directory", "symlink", "fifo", "socket"}

\* The type numbers of the editor host: Unknown, File, Directory,
\* SymbolicLink, and SymbolicLink or-ed with File and with Directory, which
\* the host gives for a link that resolves.
HostTypes == {0, 1, 2, 64, 65, 66}

\* The chain of isDirectory(), isFile(), isSymbolicLink() of both methods of
\* NodeFsAdapter.
NodeType(kind) ==
    IF kind = "directory" THEN FileType.Directory
    ELSE IF kind = "file" THEN FileType.File
    ELSE IF kind = "symlink" THEN FileType.SymbolicLink
    ELSE FileType.Unknown

EntryName(i) == [j \in 1..i |-> "e"]

NodeFsAdapter_readDirectory(dirents) ==
    [i \in 1..Len(dirents) |-> <<EntryName(i), NodeType(dirents[i])>>]

NodeFsAdapter_stat(kind) == [type |-> NodeType(kind)]

\* type as FileTypeValue: a cast the compiler erases; the number of the
\* host is what is returned.
AsFileTypeValue(type) == type

VSCodeFsAdapter_readDirectory(entries) ==
    [i \in 1..Len(entries) |-> <<EntryName(i), AsFileTypeValue(entries[i])>>]

VSCodeFsAdapter_stat(type) == [type |-> AsFileTypeValue(type)]

HostListingsOf(S) == UNION { [1..n -> S] : n \in 1..MaxEntries }

\* The directory as each host reports it: arg.dirents to Node, arg.types to
\* the editor.
InitAdapters ==
    /\ arg \in { [dirents |-> d, types |-> t] :
                   d \in HostListingsOf(NodeKinds), t \in HostListingsOf(HostTypes) }
    /\ op = "none"
    /\ out = <<>>
    /\ fs = NoFs
    /\ lines = <<>>
    /\ sections = <<>>
    /\ calls = <<>>

NodeReadDirectory ==
    /\ op' = "node.readDirectory"
    /\ out' = NodeFsAdapter_readDirectory(arg.dirents)
    /\ UNCHANGED <<fs, arg, lines, sections, calls>>

NodeStat ==
    \E i \in 1..Len(arg.dirents) :
        /\ op' = "node.stat"
        /\ out' = << <<i, NodeFsAdapter_stat(arg.dirents[i]).type>> >>
        /\ UNCHANGED <<fs, arg, lines, sections, calls>>

VSCodeReadDirectory ==
    /\ op' = "vscode.readDirectory"
    /\ out' = VSCodeFsAdapter_readDirectory(arg.types)
    /\ UNCHANGED <<fs, arg, lines, sections, calls>>

VSCodeStat ==
    \E i \in 1..Len(arg.types) :
        /\ op' = "vscode.stat"
        /\ out' = << <<i, VSCodeFsAdapter_stat(arg.types[i]).type>> >>
        /\ UNCHANGED <<fs, arg, lines, sections, calls>>

NextAdapters == NodeReadDirectory \/ NodeStat \/ VSCodeReadDirectory \/ VSCodeStat

SpecAdapters == InitAdapters /\ [][NextAdapters]_vars

AdapterOps == {"node.readDirectory", "node.stat", "vscode.readDirectory", "vscode.stat"}

\* The host's tag of the entry a returned pair is about: stat pairs carry
\* the index of the entry, readDirectory pairs come in the host's order.
HostTagOf(k) ==
    LET host == IF op \in {"node.readDirectory", "node.stat"} THEN arg.dirents ELSE arg.types
    IN  IF op \in {"node.stat", "vscode.stat"} THEN host[out[k][1]] ELSE host[k]

\* The host's tag is one the adapter's kinds name.
Recognized(k) ==
    IF op \in {"node.readDirectory", "node.stat"}
    THEN HostTagOf(k) \in {"file", "directory", "symlink"}
    ELSE HostTagOf(k) \in FileTypeValues

\* C19: every kind that readDirectory or stat of either adapter returns is
\* one of Unknown, File, Directory, SymbolicLink, and a type tag of the
\* host that is not recognized is reported as Unknown.
C19_KindsAreTheFour ==
    (op \in AdapterOps) =>
        \A k \in 1..Len(out) :
            /\ out[k][2] \in FileTypeValues
            /\ ~Recognized(k) => out[k][2] = FileType.Unknown

\* C19 for NodeFsAdapter alone, where it holds.
C19_NodeKindsAreTheFour ==
    (op \in {"node.readDirectory", "node.stat"}) =>
        \A k \in 1..Len(out) :
            /\ out[k][2] \in FileTypeValues
            /\ ~Recognized(k) => out[k][2] = FileType.Unknown

\* The editor's stat of a link to a file: 65 comes back.
C19_LinkToFile ==
    /\ op = "vscode.stat"
    /\ out[1][2] = 65
    /\ out[1][2] \notin FileTypeValues

\* Node's listing of a directory with a fifo in it.
C19_NodeUnknown ==
    /\ op = "node.readDirectory"
    /\ \E k \in 1..Len(out) : arg.dirents[k] = "fifo" /\ out[k][2] = FileType.Unknown

-----------------------------------------------------------------------------
(* extractTechStack, extractOperationalBoundaries, extractListItems,       *)
(* extractSingleValue, extractTierItems (src/src/scanner/rulesScanner.ts); *)
(* a string is the sequence of its characters.                             *)

WhiteSpace == {" ", "\t", "\r", "\n"}
LineTerminators == {"\r", "\n"}

\* The string has s at position p.
MatchesAt(flat, p, s) ==
    p >= 1 /\ p + Len(s) - 1 <= Len(flat) /\ SubSeq(flat, p, p + Len(s) - 1) = s

\* The same under the i flag, s being in lower case.
MatchesAtI(flat, p, s) ==
    p >= 1 /\ p + Len(s) - 1 <= Len(flat) /\ toLowerCase(SubSeq(flat, p, p + Len(s) - 1)) = s

\* String.prototype.includes.
includesString(str, s) == \E p \in 1..Len(str) : MatchesAt(str, p, s)

\* String.prototype.indexOf, positions counted from 1; 0 when s is not there.
indexOf(str, s) ==
    IF \E p \in 1..(Len(str) + 1) : MatchesAt(str, p, s) \/ s = <<>>
    THEN CHOOSE p \in 1..(Len(str) + 1) :
           /\ (MatchesAt(str, p, s) \/ s = <<>>)
           /\ \A r \in 1..(p - 1) : ~(MatchesAt(str, r, s) \/ s = <<>>)
    ELSE 0

\* Where a greedy run of characters of S that starts at p stops: the first
\* position from p on whose character is not in S, or the end of the string.
Skip(flat, p, S) ==
    IF \A i \in p..Len(flat) : flat[i] \in S THEN Len(flat) + 1
    ELSE CHOOSE i \in p..Len(flat) : flat[i] \notin S /\ \A j \in p..(i - 1) : flat[j] \in S

\* The first position from p on whose character is in S, or the end.
NextOf(flat, p, S) ==
    IF \A i \in p..Len(flat) : flat[i] \notin S THEN Len(flat) + 1
    ELSE CHOOSE i \in p..Len(flat) : flat[i] \in S /\ \A j \in p..(i - 1) : flat[j] \notin S

\* The start of the group that follows a greedy run of S from position c
\* and needs one character that is no terminator: the run gives characters
\* back until one is there; 0 when none is.
valueStart(flat, c, S, terminators) ==
    LET d == Skip(flat, c, S)
        starts == { q \in c..d : q <= Len(flat) /\ flat[q] \notin terminators }
    IN  IF starts = {} THEN 0 ELSE Max(starts)

NoMatch == [ok |-> FALSE]

\* One match of ^\s*-\s*\*\*${keyword}[^*]*\*\*[:\s]*(.+)$ that begins at p:
\* its group and the position of its last character.
listItemAt(flat, p, keyword) ==
    LET a == Skip(flat, p, WhiteSpace)
        b == Skip(flat, a + 1, WhiteSpace)
        c == NextOf(flat, b + 2 + Len(keyword), {"*"})
        q == valueStart(flat, c + 2, WhiteSpace \cup {":"}, LineTerminators)
        e == NextOf(flat, q, LineTerminators) - 1
    IN  IF /\ MatchesAt(flat, a, <<"-">>)
           /\ MatchesAt(flat, b, <<"*", "*">>)
           /\ MatchesAtI(flat, b + 2, keyword)
           /\ MatchesAt(flat, c, <<"*", "*">>)
           /\ q # 0
        THEN [ok |-> TRUE, group |-> SubSeq(flat, q, e), end |-> e]
        ELSE NoMatch

\* The while loop of regex.exec from lastIndex on.
RECURSIVE extractListItemsLoop(_, _, _, _)
extractListItemsLoop(flat, keyword, lastIndex, items) ==
    LET at == { p \in lastIndex..Len(flat) : LineStart(flat, p) /\ listItemAt(flat, p, keyword).ok }
    IN  IF at = {} THEN items
        ELSE LET match == listItemAt(flat, Min(at), keyword)
             IN  extractListItemsLoop(flat, keyword, match.end + 1,
                                      Append(items, trimLine(match.group)))

extractListItems(content, keyword) == extractListItemsLoop(content, keyword, 1, <<>>)

\* One match of \*\*${keyword}[^*]*\*\*[:\s]*([^\n]+) that begins at p.
singleValueAt(flat, p, keyword) ==
    LET c == NextOf(flat, p + 2 + Len(keyword), {"*"})
        q == valueStart(flat, c + 2, WhiteSpace \cup {":"}, {"\n"})
        e == NextOf(flat, q, {"\n"}) - 1
    IN  IF /\ MatchesAt(flat, p, <<"*", "*">>)
           /\ MatchesAtI(flat, p + 2, keyword)
           /\ MatchesAt(flat, c, <<"*", "*">>)
           /\ q # 0
        THEN [ok |-> TRUE, group |-> SubSeq(flat, q, e), end |-> e]
        ELSE NoMatch

extractSingleValue(content, keyword) ==
    LET at == { p \in 1..Len(content) : singleValueAt(content, p, keyword).ok }
    IN  IF at = {} THEN Undefined
        ELSE JStr(trimLine(singleValueAt(content, Min(at), keyword).group))

\* sections.find(s => s.title.toLowerCase().includes(...)): its index in
\* sections, 0 when there is none.
findSection(sections_, words) ==
    LET hit == { i \in 1..Len(sections_) :
                   \E w \in words : includesString(toLowerCase(sections_[i].title), w) }
    IN  IF hit = {} THEN 0 ELSE Min(hit)

\* The end with the span running on to the end of the document.
endLine_DocumentEnd(sections_, idx, length) == length - 1

\* endLine: the line before the next level-2 section after sections[idx],
\* or the last line.
endLine(sections_, idx, length) ==
    LET later == { i \in (idx + 1)..Len(sections_) : sections_[i].level = 2 }
    IN  IF later # {} THEN sections_[Min(later)].startLine - 1 ELSE length - 1

\* lines.slice(startLine, endLine + 1).join('\n'), line numbers from 0.
sectionContent(ls, startLine, end) == FlatText(SubSeq(ls, startLine + 1, end + 1))

K_tech_stack == <<"t", "e", "c", "h", " ", "s", "t", "a", "c", "k">>
K_technology == <<"t", "e", "c", "h", "n", "o", "l", "o", "g", "y">>
K_language == <<"l", "a", "n", "g", "u", "a", "g", "e">>
K_framework == <<"f", "r", "a", "m", "e", "w", "o", "r", "k">>
K_build == <<"b", "u", "i", "l", "d">>
K_testing == <<"t", "e", "s", "t", "i", "n", "g">>
K_package_manager == <<"p", "a", "c", "k", "a", "g", "e", " ", "m", "a", "n", "a", "g", "e", "r">>

extractTechStack(content, sections_) ==
    LET idx == findSection(sections_, {K_tech_stack, K_technology})
        span == sectionContent(content, sections_[idx].startLine,
                               endLine(sections_, idx, Len(content)))
    IN  IF idx = 0 THEN Undefined
        ELSE [languages |-> extractListItems(span, K_language),
              frameworks |-> extractListItems(span, K_framework),
              buildTools |-> extractListItems(span, K_build),
              testing |-> extractListItems(span, K_testing),
              packageManager |-> extractSingleValue(span, K_package_manager)]

\* The match of ###?\s*${tierKeyword}[^\n]*${tierName}[^\n]* that begins at
\* p: the matched string.
tierMatchAt(flat, p, tierKeyword, tierName) ==
    LET h == IF MatchesAt(flat, p + 2, <<"#">>) THEN 3 ELSE 2
        a == Skip(flat, p + h, WhiteSpace)
        e == NextOf(flat, a, {"\n"}) - 1
    IN  IF /\ MatchesAt(flat, p, <<"#", "#">>)
           /\ MatchesAtI(flat, a, tierKeyword)
           /\ \E t \in (a + Len(tierKeyword))..e :
                 t + Len(tierName) - 1 <= e /\ MatchesAtI(flat, t, tierName)
        THEN [ok |-> TRUE, group |-> SubSeq(flat, p, e), end |-> e]
        ELSE NoMatch

\* content.slice(startIndex).match(/^#{2,3}\s/m): the matched string.
nextHeadingMatch(rest) ==
    LET headingAt(r) ==
            IF MatchesAt(rest, r, <<"#", "#", "#">>) /\ r + 3 <= Len(rest) /\ rest[r + 3] \in WhiteSpace
            THEN [ok |-> TRUE, group |-> SubSeq(rest, r, r + 3)]
            ELSE IF MatchesAt(rest, r, <<"#", "#">>) /\ r + 2 <= Len(rest) /\ rest[r + 2] \in WhiteSpace
            THEN [ok |-> TRUE, group |-> SubSeq(rest, r, r + 2)]
            ELSE NoMatch
        at == { r \in 1..Len(rest) : LineStart(rest, r) /\ headingAt(r).ok }
    IN  IF at = {} THEN NoMatch ELSE headingAt(Min(at))

TierTags == << <<"A", "L", "W", "A", "Y", "S">>, <<"A", "S", "K">>, <<"N", "E", "V", "E", "R">> >>

\* The bullets counted for a tier whatever their tag: (ALWAYS|ASK|NEVER).
bulletTags(tierName) == TierTags

\* One match of ^\s*-\s*\*\*(ALWAYS|ASK|NEVER)\*\*\s*(.+)$ that begins at p.
bulletAt(flat, p, tags) ==
    LET a == Skip(flat, p, WhiteSpace)
        b == Skip(flat, a + 1, WhiteSpace)
        tagged == { k \in 1..Len(tags) :
                      MatchesAt(flat, b + 2, tags[k])
                      /\ MatchesAt(flat, b + 2 + Len(tags[k]), <<"*", "*">>) }
        c == b + 2 + Len(tags[Min(tagged)]) + 2
        q == valueStart(flat, c, WhiteSpace, LineTerminators)
        e == NextOf(flat, q, LineTerminators) - 1
    IN  IF /\ MatchesAt(flat, a, <<"-">>)
           /\ MatchesAt(flat, b, <<"*", "*">>)
           /\ tagged # {}
           /\ q # 0
        THEN [ok |-> TRUE, group |-> SubSeq(flat, q, e), end |-> e]
        ELSE NoMatch

RECURSIVE extractTierItemsLoop(_, _, _, _)
extractTierItemsLoop(flat, tags, lastIndex, items) ==
    LET at == { p \in lastIndex..Len(flat) : LineStart(flat, p) /\ bulletAt(flat, p, tags).ok }
    IN  IF at = {} THEN items
        ELSE LET match == bulletAt(flat, Min(at), tags)
             IN  extractTierItemsLoop(flat, tags, match.end + 1,
                                      Append(items, trimLine(match.group)))

extractTierItems(content, tierKeyword, tierName) ==
    LET at == { p \in 1..Len(content) : tierMatchAt(content, p, tierKeyword, tierName).ok }
        tierMatch == tierMatchAt(content, Min(at), tierKeyword, tierName)
        startIndex == indexOf(content, tierMatch.group) + Len(tierMatch.group)
        rest == SubSeq(content, startIndex, Len(content))
        next == nextHeadingMatch(rest)
        endIndex == IF next.ok THEN startIndex + indexOf(rest, next.group) - 1
                    ELSE Len(content) + 1
        tierContent == SubSeq(content, startIndex, endIndex - 1)
    IN  IF at = {} THEN <<>>
        ELSE extractTierItemsLoop(tierContent, bulletTags(tierName), 1, <<>>)

K_operational_boundaries == <<"o", "p", "e", "r", "a", "t", "i", "o", "n", "a", "l", " ", "b", "o", "u", "n", "d", "a", "r", "i", "e", "s">>
K_tier_1 == <<"t", "i", "e", "r", " ", "1">>
K_tier_2 == <<"t", "i", "e", "r", " ", "2">>
K_tier_3 == <<"t", "i", "e", "r", " ", "3">>
K_always == <<"a", "l", "w", "a", "y", "s">>
K_ask == <<"a", "s", "k">>
K_never == <<"n", "e", "v", "e", "r">>

extractOperationalBoundaries(content, sections_) ==
    LET idx == findSection(sections_, {K_operational_boundaries})
        span == sectionContent(content, sections_[idx].startLine,
                               endLine(sections_, idx, Len(content)))
    IN  IF idx = 0 THEN Undefined
        ELSE [tier1Always |-> extractTierItems(span, K_tier_1, K_always),
              tier2Ask |-> extractTierItems(span, K_tier_2, K_ask),
              tier3Never |-> extractTierItems(span, K_tier_3, K_never)]

-----------------------------------------------------------------------------
(* extractTechStack over documents (specification SpecTechStack).          *)

MaxTechLines == 4

L_TechStack == <<"#", "#", " ", "T", "e", "c", "h", " ", "S", "t", "a", "c", "k">>
L_Technology == <<"#", "#", "#", " ", "T", "e", "c", "h", "n", "o", "l", "o", "g", "y">>
L_Testing == <<"#", "#", " ", "T", "e", "s", "t", "i", "n", "g">>
L_Sub == <<"#", "#", "#", " ", "S", "u", "b">>
L_Language == <<"-", " ", "*", "*", "L", "a", "n", "g", "u", "a", "g", "e", ":", "*", "*", " ", "T", "S">>
L_LanguageEmpty == <<"-", " ", "*", "*", "L", "a", "n", "g", "u", "a", "g", "e", ":", "*", "*">>
L_PackageManager == <<"-", " ", "*", "*", "P", "a", "c", "k", "a", "g", "e", " ", "M", "a", "n", "a", "g", "e", "r", ":", "*", "*", " ", "n", "p", "m">>

TechLines ==
    { L_TechStack, L_Technology, L_Testing, L_Sub, L_Language, L_LanguageEmpty,
      L_PackageManager }

TechDocuments == UNION { [1..n -> TechLines] : n \in 1..MaxTechLines }

InitTechStack ==
    /\ lines \in TechDocuments
    /\ sections = <<>>
    /\ op = "none"
    /\ arg = <<>>
    /\ out = <<>>
    /\ fs = NoFs
    /\ calls = <<>>

\* parseAgentsMd as far as the tech stack goes.
ExtractTechStack ==
    /\ op' = "extractTechStack"
    /\ sections' = parseSections(lines)
    /\ out' = extractTechStack(lines, parseSections(lines))
    /\ UNCHANGED <<fs, arg, lines, calls>>

NextTechStack == ExtractTechStack

SpecTechStack == InitTechStack /\ [][NextTechStack]_vars

\* The line is the heading of a section whose title has one of the words.
IsTitled(line, words) ==
    /\ headingMatch(line).ok
    /\ \E w \in words : includesString(toLowerCase(headingMatch(line).v[2]), w)

IsLevel2Heading(line) == headingMatch(line).ok /\ Len(headingMatch(line).v[1]) = 2

\* The span of the first section so titled: from its heading to the line
\* before the next level-2 heading, or to the last line; line numbers
\* from 1.
SpanStart(text, words) == Min({ i \in 1..Len(text) : IsTitled(text[i], words) })

SpanEnd(text, words) ==
    LET later == { j \in (SpanStart(text, words) + 1)..Len(text) : IsLevel2Heading(text[j]) }
    IN  IF later = {} THEN Len(text) ELSE Min(later) - 1

Span(text, words) == SubSeq(text, SpanStart(text, words), SpanEnd(text, words))

TechWords == {K_tech_stack, K_technology}

HasTechSection == \E i \in 1..Len(lines) : IsTitled(lines[i], TechWords)

\* The bullets of the span that stand right under a level-3 heading.
NestedLanguageBullets ==
    { i \in (SpanStart(lines, TechWords) + 2)..SpanEnd(lines, TechWords) :
        lines[i] = L_Language /\ lines[i - 1] = L_Sub }

\* C18: extractTechStack is absent exactly when no section is titled "tech
\* stack" or "technology"; otherwise its result is that of the span from
\* the first such section to the line before the next level-2 heading (or
\* the last line) taken alone, so that nothing at or after that heading
\* appears, and the bullets of a level-3 subsection inside the span are in
\* it.
C18_TechStackSpan ==
    (op = "extractTechStack") =>
        /\ out = Undefined <=> ~HasTechSection
        /\ HasTechSection =>
             /\ out = extractTechStack(Span(lines, TechWords), parseSections(Span(lines, TechWords)))
             /\ NestedLanguageBullets # {} => includes(out.languages, <<"T", "S">>)
             /\ (\A i \in SpanStart(lines, TechWords)..SpanEnd(lines, TechWords) :
                    lines[i] \notin {L_Language, L_LanguageEmpty}) => out.languages = <<>>
             /\ (\A i \in SpanStart(lines, TechWords)..SpanEnd(lines, TechWords) :
                    lines[i] # L_PackageManager) => out.packageManager = Undefined

\* A tech stack section with a bullet in a level-3 subsection, closed by a
\* level-2 heading: the bullet is in the result.
C18_Witness ==
    /\ op = "extractTechStack"
    /\ lines = <<L_TechStack, L_Sub, L_Language, L_Testing>>
    /\ out # Undefined
    /\ out.languages = << <<"T", "S">> >>

\* A package manager named only after the next level-2 heading.
C18_WitnessCutoff ==
    /\ op = "extractTechStack"
    /\ lines = <<L_TechStack, L_Language, L_Testing, L_PackageManager>>
    /\ out # Undefined
    /\ out.languages = << <<"T", "S">> >>
    /\ out.packageManager = Undefined

-----------------------------------------------------------------------------
(* extractOperationalBoundaries over documents (specification              *)
(* SpecBoundaries).                                                        *)

MaxBoundaryLines == 5

L_Boundaries == <<"#", "#", " ", "O", "p", "e", "r", "a", "t", "i", "o", "n", "a", "l", " ", "B", "o", "u", "n", "d", "a", "r", "i", "e", "s">>
L_Tier1 == <<"#", "#", "#", " ", "T", "i", "e", "r", " ", "1", " ", "(", "A", "L", "W", "A", "Y", "S", ")">>
L_Tier2 == <<"#", "#", "#", " ", "T", "i", "e", "r", " ", "2", " ", "(", "A", "S", "K", ")">>
L_Always == <<"-", " ", "*", "*", "A", "L", "W", "A", "Y", "S", "*", "*", " ", "a">>
L_Never == <<"-", " ", "*", "*", "N", "E", "V", "E", "R", "*", "*", " ", "n">>
L_Note == <<"#", "#", "#", "#", " ", "N", "o", "t", "e">>

BoundaryLines == { L_Boundaries, L_Tier1, L_Tier2, L_Always, L_Never, L_Note }

BoundaryDocuments == UNION { [1..n -> BoundaryLines] : n \in 1..MaxBoundaryLines }

InitBoundaries ==
    /\ lines \in BoundaryDocuments
    /\ sections = <<>>
    /\ op = "none"
    /\ arg = <<>>
    /\ out = <<>>
    /\ fs = NoFs
    /\ calls = <<>>

\* parseAgentsMd as far as the operational boundaries go.
ExtractOperationalBoundaries ==
    /\ op' = "extractOperationalBoundaries"
    /\ sections' = parseSections(lines)
    /\ out' = extractOperationalBoundaries(lines, parseSections(lines))
    /\ UNCHANGED <<fs, arg, lines, calls>>

NextBoundaries == ExtractOperationalBoundaries

SpecBoundaries == InitBoundaries /\ [][NextBoundaries]_vars

BoundaryWords == {K_operational_boundaries}

HasBoundariesSection == \E i \in 1..Len(lines) : IsTitled(lines[i], BoundaryWords)

\* The line is a tier's sub-heading: level 2 or 3, the tier's number first
\* and its name after it.
IsTierHeading(line, tierKeyword, tierName) ==
    /\ headingMatch(line).ok
    /\ Len(headingMatch(line).v[1]) \in {2, 3}
    /\ LET title == toLowerCase(headingMatch(line).v[2])
       IN  /\ startsWith(title, tierKeyword)
           /\ includesString(SubSeq(title, Len(tierKeyword) + 1, Len(title)), tierName)

IsLevel2Or3Heading(line) == headingMatch(line).ok /\ Len(headingMatch(line).v[1]) \in {2, 3}

\* The line is a bullet with the tag: "- **TAG** text".
IsTaggedBullet(line, tag) ==
    /\ startsWith(line, <<"-", " ", "*", "*">> \o tag \o <<"*", "*", " ">>)
    /\ Len(line) > Len(tag) + 7

BulletText(line, tag) == trimLine(SubSeq(line, Len(tag) + 8, Len(line)))

\* The lines of a tier, in the section's span: those after its first
\* sub-heading and before the next heading of level 2 or 3.
TierSlice(span, tierKeyword, tierName) ==
    LET heads == { i \in 1..Len(span) : IsTierHeading(span[i], tierKeyword, tierName) }
        first == Min(heads)
        nexts == { j \in (first + 1)..Len(span) : IsLevel2Or3Heading(span[j]) }
    IN  IF heads = {} THEN <<>>
        ELSE SubSeq(span, first + 1, IF nexts = {} THEN Len(span) ELSE Min(nexts) - 1)

\* The texts of the bullets of the slice that carry one of the tags, in
\* their order.
RECURSIVE TaggedBullets(_, _)
TaggedBullets(slice, tags) ==
    IF slice = <<>> THEN <<>>
    ELSE LET hit == { tag \in tags : IsTaggedBullet(Head(slice), tag) }
         IN  (IF hit = {} THEN <<>> ELSE << BulletText(Head(slice), CHOOSE tag \in hit : TRUE) >>)
             \o TaggedBullets(Tail(slice), tags)

TierBullets(tierKeyword, tierName, tags) ==
    TaggedBullets(TierSlice(Span(lines, BoundaryWords), tierKeyword, tierName), tags)

\* C17: in an Operational Boundaries section each tier's sequence holds
\* exactly the bullets tagged with the tier's own name (ALWAYS, ASK, NEVER)
\* that lie between the tier's sub-heading and the next heading of level 2
\* or 3, in the order of the document; it is empty when the sub-heading is
\* missing or no such bullet is there.
C17_TierHasOwnBullets ==
    (op = "extractOperationalBoundaries" /\ HasBoundariesSection) =>
        /\ out # Undefined
        /\ out.tier1Always = TierBullets(K_tier_1, K_always, {TierTags[1]})
        /\ out.tier2Ask = TierBullets(K_tier_2, K_ask, {TierTags[2]})
        /\ out.tier3Never = TierBullets(K_tier_3, K_never, {TierTags[3]})

\* The tiers with the bullets of every tag counted, as long as no
\* level-4 heading stands in the section.
C17_TierHasBulletsOfAnyTag ==
    (/\ op = "extractOperationalBoundaries"
     /\ HasBoundariesSection
     /\ \A i \in 1..Len(lines) : lines[i] # L_Note) =>
        /\ out # Undefined
        /\ out.tier1Always = TierBullets(K_tier_1, K_always, Range(TierTags))
        /\ out.tier2Ask = TierBullets(K_tier_2, K_ask, Range(TierTags))
        /\ out.tier3Never = TierBullets(K_tier_3, K_never, Range(TierTags))

\* A NEVER bullet under the heading of tier 1.
C17_ForeignTag ==
    /\ op = "extractOperationalBoundaries"
    /\ lines = <<L_Boundaries, L_Tier1, L_Never>>
    /\ out.tier1Always = << <<"n">> >>

\* An ALWAYS bullet of tier 1 under a level-4 heading, with the heading of
\* tier 2 after it.
C17_BulletUnderLevel4 ==
    /\ op = "extractOperationalBoundaries"
    /\ lines = <<L_Boundaries, L_Tier1, L_Note, L_Always, L_Tier2>>
    /\ out.tier1Always = <<>>

\* A tier without its sub-heading beside one with its bullet.
C17_MissingSubHeading ==
    /\ op = "extractOperationalBoundaries"
    /\ lines = <<L_Boundaries, L_Tier1, L_Always>>
    /\ out.tier1Always = << <<"a">> >>
    /\ out.tier2Ask = <<>>
    /\ out.tier3Never = <<>>

-----------------------------------------------------------------------------
(* specs/ and schemas/ entry by entry (specification SpecArtifacts).       *)

T_contract == << <<"x">>, <<"#", "#", " ", "c", "o", "n", "t", "r", "a", "c", "t">> >>
J_null == << <<"null">> >>
D_d1 == <<"d", "1">>
D_d2 == <<"d", "2">>

LinkNode(read) == [stat |-> Ok(FileType.SymbolicLink), read |-> read, list |-> Err]

\* Subdirectories of specs/ whose spec.md reads, does not stat, or is a link.
ArtifactSpecDirNodes ==
    SpecDirNodes
    \cup { DirNode(Ok(<< Entry(N_spec_md, FileType.File, FileNode(Ok(T_contract))) >>)),
           DirNode(Ok(<< Entry(N_spec_md, FileType.File, StatFails(FileNode(Ok(T_blueprint)))) >>)),
           DirNode(Ok(<< Entry(N_spec_md, FileType.SymbolicLink, LinkNode(Ok(T_blueprint))) >>)) }

ArtifactSpecEntries ==
    { Entry(n, FileType.Directory, d) : n \in {D_d1, D_d2}, d \in ArtifactSpecDirNodes }
    \cup { Entry(N_spec_md, FileType.File, FileNode(Ok(T_blueprint))),
           Entry(D_d1, FileType.SymbolicLink,
                 DirNode(Ok(<< Entry(N_spec_md, FileType.File, FileNode(Ok(T_blueprint))) >>))) }

ArtifactSpecsNodes ==
    { DirNode(Ok(l)) : l \in FlatListings(ArtifactSpecEntries, MaxFiles) }
    \cup { DirNode(Err), FileNode(Ok(T_plain)), Missing, StatFails(DirNode(Ok(<<>>))) }

ArtifactSchemaEntries ==
    SchemaEntries
    \cup { Entry(Ext_json, FileType.File, FileNode(Ok(J_null))),
           Entry(F_t_json, FileType.SymbolicLink, DirNode(Ok(<<>>))) }

ArtifactSchemasNodes ==
    { DirNode(Ok(l)) : l \in FlatListings(ArtifactSchemaEntries, MaxFiles) }
    \cup { DirNode(Err), FileNode(Ok(J_id)), Missing, StatFails(DirNode(Ok(<<>>))) }

ArtifactsFamily ==
    { MkFs([Nothing EXCEPT !.specs = s]) : s \in ArtifactSpecsNodes }
    \cup { MkFs([Nothing EXCEPT !.schemas = j]) : j \in ArtifactSchemasNodes }

InitArtifacts ==
    /\ fs \in ArtifactsFamily
    /\ op = "none"
    /\ arg = <<>>
    /\ out = <<>>
    /\ lines = <<>>
    /\ sections = <<>>
    /\ calls = <<>>

NextArtifacts == ScanAsdlc

SpecArtifacts == InitArtifacts /\ [][NextArtifacts]_vars

SpecsDir == join(ProjectRoot, N_specs)
SchemasDir == join(ProjectRoot, N_schemas)

IsDirectory(p) == stat(fs, p).ok /\ stat(fs, p).v.type = FileType.Directory

\* The immediate children of a directory: what listing it gives, none when
\* it cannot be listed.
Children(p) == IF readDirectory(fs, p).ok THEN readDirectory(fs, p).v ELSE <<>>

\* The subdirectory's spec.md stats as a regular file and is read.
HasUsableSpec(name) ==
    LET p == join(join(SpecsDir, name), N_spec_md)
    IN  /\ stat(fs, p).ok
        /\ stat(fs, p).v.type = FileType.File
        /\ readFile(fs, p).ok

SpecDomains ==
    { i \in 1..Len(Children(SpecsDir)) :
        /\ Children(SpecsDir)[i][2] = FileType.Directory
        /\ HasUsableSpec(Children(SpecsDir)[i][1]) }

SpecEntryOf(name) ==
    LET p == join(join(SpecsDir, name), N_spec_md)
    IN  [domain |-> name,
         path |-> p,
         hasBlueprint |-> hasSection(readFile(fs, p).v, S_Blueprint),
         hasContract |-> hasSection(readFile(fs, p).v, S_Contract)]

OneEntryPerDomain ==
    LET specs == out.v.specs.specs
    IN  /\ Len(specs) = Cardinality(SpecDomains)
        /\ \A i \in SpecDomains :
             Cardinality({ k \in 1..Len(specs) :
                             specs[k] = SpecEntryOf(Children(SpecsDir)[i][1]) }) = 1

\* C21 as stated: whenever specs/ stats as a directory the scan reports
\* exists = true and one SpecEntry per subdirectory with a usable spec.md.
C21_DirectoryExists ==
    (op = "scanAsdlc" /\ IsDirectory(SpecsDir)) =>
        /\ out.ok
        /\ out.v.specs.exists
        /\ OneEntryPerDomain

\* C21, what the code keeps: when specs/ stats as a directory the scan
\* reports exists = true exactly when the directory can be listed, and one
\* SpecEntry (domain = the subdirectory name, hasBlueprint and hasContract by
\* hasSection) for each child of kind Directory whose spec.md stats as a
\* regular file and is read; every other child contributes nothing.
C21_ListedDirectoryExists ==
    (op = "scanAsdlc" /\ IsDirectory(SpecsDir)) =>
        /\ out.ok
        /\ out.v.specs.exists = readDirectory(fs, SpecsDir).ok
        /\ OneEntryPerDomain

\* d1's spec.md cannot be read, d2's has a Blueprint section: one entry, d2's.
C21_Witness ==
    /\ op = "scanAsdlc"
    /\ IsDirectory(SpecsDir)
    /\ Len(Children(SpecsDir)) = 2
    /\ Children(SpecsDir)[1] = <<D_d1, FileType.Directory>>
    /\ stat(fs, join(join(SpecsDir, D_d1), N_spec_md)).ok
    /\ ~readFile(fs, join(join(SpecsDir, D_d1), N_spec_md)).ok
    /\ out.v.specs.exists
    /\ Len(out.v.specs.specs) = 1
    /\ out.v.specs.specs[1].domain = D_d2
    /\ out.v.specs.specs[1].hasBlueprint
    /\ ~out.v.specs.specs[1].hasContract

\* specs/ stats as a directory and cannot be listed.
C21_Unlistable ==
    /\ op = "scanAsdlc"
    /\ IsDirectory(SpecsDir)
    /\ ~readDirectory(fs, SpecsDir).ok
    /\ ~out.v.specs.exists

SchemaFiles ==
    { i \in 1..Len(Children(SchemasDir)) :
        /\ Children(SchemasDir)[i][2] \in {FileType.File, FileType.SymbolicLink}
        /\ endsWith(Children(SchemasDir)[i][1], Ext_json) }

\* The file is unreadable or what it holds is not valid JSON.
NoJsonIn(p) == ~readFile(fs, p).ok \/ ~JSONparse(readFile(fs, p).v).ok

SchemaOf(k, name) ==
    /\ out.v.schemas.schemas[k].name = SubSeq(name, 1, Len(name) - Len(Ext_json))
    /\ out.v.schemas.schemas[k].path = join(SchemasDir, name)
    /\ NoJsonIn(join(SchemasDir, name)) => out.v.schemas.schemas[k].schemaId = Undefined

\* C22: when schemas/ stats as a directory the scan succeeds with exactly
\* one SchemaEntry for each child of kind File or SymbolicLink whose name
\* ends in .json, named by the filename without .json; an entry whose file
\* is unreadable or is not valid JSON is kept, with schemaId absent.
C22_OneEntryPerJsonFile ==
    (op = "scanAsdlc" /\ IsDirectory(SchemasDir)) =>
        /\ out.ok
        /\ Len(out.v.schemas.schemas) = Cardinality(SchemaFiles)
        /\ \A i \in SchemaFiles :
             Cardinality({ k \in 1..Len(out.v.schemas.schemas) :
                             SchemaOf(k, Children(SchemasDir)[i][1]) }) = 1

\* s.json cannot be read and t.json is a link to a schema with an id: both
\* are entries, s without a schemaId.
C22_Witness ==
    /\ op = "scanAsdlc"
    /\ IsDirectory(SchemasDir)
    /\ Children(SchemasDir) = << <<F_s_json, FileType.File>>, <<F_t_json, FileType.SymbolicLink>> >>
    /\ ~readFile(fs, join(SchemasDir, F_s_json)).ok
    /\ readFile(fs, join(SchemasDir, F_t_json)).ok
    /\ Len(out.v.schemas.schemas) = 2
    /\ out.v.schemas.schemas[1].name = <<"s">>
    /\ out.v.schemas.schemas[1].schemaId = Undefined
    /\ out.v.schemas.schemas[2].schemaId.t = "string"

-----------------------------------------------------------------------------
(* extractSchemaId on JSON texts (specification SpecSchemaId).             *)

K_dollar_id == <<"$id">>
K_id == <<"id">>
K_bad == <<"bad">>

\* What a member of an object holds; a member is written as the place of
\* its value here, 0 for a key left out.
MemberValues == <<JNull, JNum("5"), JBool(TRUE), JStr(<<>>), JStr(<<"u1">>), JStr(<<"u2">>)>>

MemberValue(n) == MemberValues[n]

SchemaKeys == <<K_dollar_id, K_id, K_bad>>

\* JSON.stringify of a member value, as its tokens.
stringifyMember(v) ==
    CASE v.t = "null" -> <<"null">>
      [] v.t = "number" -> <<v.v>>
      [] v.t = "boolean" -> IF v.v THEN <<"true">> ELSE <<"false">>
      [] v.t = "string" -> <<"\"">> \o v.v \o <<"\"">>

\* The members of an object from key i on; m gives each key the number of
\* its value.
RECURSIVE stringifyMembers(_, _)
stringifyMembers(m, i) ==
    IF i > Len(SchemaKeys) THEN <<>>
    ELSE IF m[SchemaKeys[i]] = 0 THEN stringifyMembers(m, i + 1)
    ELSE LET rest == stringifyMembers(m, i + 1)
         IN  <<"\"">> \o SchemaKeys[i] \o <<"\"", ":">> \o stringifyMember(MemberValue(m[SchemaKeys[i]]))
               \o (IF rest = <<>> THEN <<>> ELSE <<",">> \o rest)

\* A written value: the primitive numbered prim, or for prim = 0 the object
\* with members m.
stringify(w) ==
    IF w.prim = 0 THEN <<"{">> \o stringifyMembers(w.m, 1) \o <<"}">>
    ELSE stringifyMember(MemberValue(w.prim))

NoMembers == [k \in {K_dollar_id, K_id, K_bad} |-> 0]

Written ==
    { [prim |-> 0, m |-> m] : m \in [{K_dollar_id, K_id, K_bad} -> 0..Len(MemberValues)] }
    \cup { [prim |-> n, m |-> NoMembers] : n \in 1..Len(MemberValues) }

\* The texts: a value written out in full on one line, and the same cut
\* short by its last token, which no longer is JSON.
SchemaTexts ==
    { [content |-> <<stringify(w)>>, valid |-> TRUE, value |-> w] : w \in Written }
    \cup { [content |-> <<SubSeq(stringify(w), 1, Len(stringify(w)) - 1)>>,
            valid |-> FALSE, value |-> w] : w \in Written }

InitSchemaId ==
    /\ arg \in SchemaTexts
    /\ fs = NoFs
    /\ op = "none"
    /\ out = <<>>
    /\ lines = <<>>
    /\ sections = <<>>
    /\ calls = <<>>

ExtractSchemaId ==
    /\ op' = "extractSchemaId"
    /\ out' = extractSchemaId(arg.content)
    /\ UNCHANGED <<fs, arg, lines, sections, calls>>

NextSchemaId == ExtractSchemaId

SpecSchemaId == InitSchemaId /\ [][NextSchemaId]_vars

SameValue(a, b) == a.t = b.t /\ (a.t \in {"null", "undefined"} \/ a.v = b.v)

IsJsValue(x) == x.t \in {"undefined", "null", "number", "boolean", "string"}

\* The written value is an object with the key.
HasKey(k) == arg.valid /\ arg.value.prim = 0 /\ arg.value.m[k] # 0

\* The written value is an object holding something other than null at the key.
HasValueAt(k) == HasKey(k) /\ MemberValue(arg.value.m[k]).t # "null"

ValueAt(k) == MemberValue(arg.value.m[k])

\* C23 as stated: extractSchemaId returns a value and never raises: the $id
\* of the parsed value when that key is present, otherwise its id, and absent
\* when neither key exists, the value is not an object or the text is not JSON.
C23_DollarIdWhenPresent ==
    op = "extractSchemaId" =>
        /\ IsJsValue(out)
        /\ SameValue(out, IF HasKey(K_dollar_id) THEN ValueAt(K_dollar_id)
                          ELSE IF HasKey(K_id) THEN ValueAt(K_id)
                          ELSE Undefined)

\* C23, what the code keeps: extractSchemaId returns a value and never
\* raises: the $id of the parsed value when that key is present and does
\* not hold null, otherwise its id, and absent when there is no id either,
\* the value is not an object or the text is not JSON.
C23_DollarIdUnlessNull ==
    op = "extractSchemaId" =>
        /\ IsJsValue(out)
        /\ SameValue(out, IF HasValueAt(K_dollar_id) THEN ValueAt(K_dollar_id)
                          ELSE IF HasKey(K_id) THEN ValueAt(K_id)
                          ELSE Undefined)

\* {"id":"u2","bad":null}: no $id, the id is returned.
C23_Witness ==
    /\ op = "extractSchemaId"
    /\ arg.valid
    /\ arg.value.prim = 0
    /\ arg.value.m[K_dollar_id] = 0
    /\ arg.value.m[K_id] = 6
    /\ arg.value.m[K_bad] = 1
    /\ out.t = "string"
    /\ out.v = <<"u2">>

\* The text null: reading $id of it raises inside the try, nothing is returned.
C23_WitnessNull ==
    /\ op = "extractSchemaId"
    /\ arg.valid
    /\ arg.content = << <<"null">> >>
    /\ out = Undefined

\* {"$id":null,"id":"u2"}: the id is returned although $id is present.
C23_NullDollarId ==
    /\ op = "extractSchemaId"
    /\ arg.valid
    /\ arg.value.prim = 0
    /\ arg.value.m[K_dollar_id] = 1
    /\ arg.value.m[K_id] = 6
    /\ out.t = "string"
    /\ out.v = <<"u2">>

-----------------------------------------------------------------------------
(* listFilesRecursive call by call, over directories with symbolic links   *)
(* that may lead back up (specification SpecWalk).  Here fs is a graph:    *)
(* directory 1 is the root, parent gives every other directory the one it  *)
(* is an entry of, link the target of the symbolic link a directory holds  *)
(* (0 for none), unlistable a directory readDirectory fails on (0: none).  *)

MaxDirs == 3

DirIds == 1..MaxDirs

DirName(d) == [j \in 1..d |-> "d"]
N_link == <<"l">>
F_a_md == <<"a", ".", "m", "d">>

Trees == { p \in [DirIds -> 0..MaxDirs] : p[1] = 0 /\ \A d \in DirIds \ {1} : p[d] \in 1..(d - 1) }

\* At most two of the directories hold a link.
Links == { l \in [DirIds -> 0..MaxDirs] : \E a, b \in DirIds : \A d \in DirIds \ {a, b} : l[d] = 0 }

Graphs ==
    { [parent |-> p, link |-> l, unlistable |-> u] :
        p \in Trees, l \in Links, u \in {0, MaxDirs} }

\* The entries of directory d from child c on.
RECURSIVE childEntries(_, _, _)
childEntries(g, d, c) ==
    IF c > MaxDirs THEN <<>>
    ELSE (IF g.parent[c] = d
          THEN << [name |-> DirName(c), kind |-> FileType.Directory, to |-> c] >>
          ELSE <<>>) \o childEntries(g, d, c + 1)

\* What directory d holds: a file, its subdirectories, its link.
listing(g, d) ==
    << [name |-> F_a_md, kind |-> FileType.File, to |-> 0] >>
    \o childEntries(g, d, 2)
    \o (IF g.link[d] = 0 THEN <<>>
        ELSE << [name |-> N_link, kind |-> FileType.SymbolicLink, to |-> g.link[d]] >>)

\* The directory the entry of d with that name is or leads to; 0 when it
\* is a file.
entryTarget(g, d, name) ==
    LET es == listing(g, d)
    IN  es[CHOOSE i \in 1..Len(es) : es[i].name = name].to

\* fs.readDirectory on the path that leads to directory d.
readDirectoryIn(g, d) ==
    IF d = 0 \/ d = g.unlistable THEN Err
    ELSE Ok([i \in 1..Len(listing(g, d)) |-> <<listing(g, d)[i].name, listing(g, d)[i].kind>>])

\* The walk in progress: the calls of walk that have not returned, innermost
\* last, each with its path, the directory the path leads to, its entries
\* and the place of its loop; results; and the directories readDirectory
\* was called on, in order.
NoWalk == [frames |-> <<>>, results |-> <<>>, listed |-> <<>>]

\* walk(dirPath) up to its loop, dirPath leading to directory d: the
\* listing, and the catch when it fails.
walkEnter(g, w, dirPath, d) ==
    LET r == readDirectoryIn(g, d)
    IN  IF ~r.ok THEN [w EXCEPT !.listed = Append(@, d)]
        ELSE [w EXCEPT !.listed = Append(@, d),
                       !.frames = Append(@, [dirPath |-> dirPath, dir |-> d,
                                             entries |-> r.v, i |-> 1])]

\* One turn of walk's loop in the innermost call.
walkEntry(g, w, normalizedExtensions) ==
    LET n == Len(w.frames)
        top == w.frames[n]
        name == top.entries[top.i][1]
        fileType == top.entries[top.i][2]
        next == [w EXCEPT !.frames[n].i = @ + 1]
    IN  IF walkSkips(name) THEN next
        ELSE IF walkDescends(fileType)
        THEN walkEnter(g, next, join(top.dirPath, name), entryTarget(g, top.dir, name))
        ELSE [next EXCEPT !.results =
                 walkFile(@, top.dirPath, name, fileType, normalizedExtensions)]

\* The depth of the calls, never reached by a walk that goes down directories only.
MaxDepth == MaxDirs + 1

InitWalk ==
    /\ fs \in Graphs
    /\ op = "none"
    /\ arg = <<Ext_md>>
    /\ out = <<>>
    /\ lines = <<>>
    /\ sections = <<>>
    /\ calls = NoWalk

\* listFilesRecursive(fs, rootPath, extensions) up to the first listing.
WalkStart ==
    /\ op = "none"
    /\ op' = "walking"
    /\ calls' = walkEnter(fs, NoWalk, RulesDir, 1)
    /\ UNCHANGED <<fs, arg, out, lines, sections>>

WalkEntry ==
    /\ op = "walking"
    /\ Len(calls.frames) > 0
    /\ Len(calls.frames) <= MaxDepth
    /\ calls.frames[Len(calls.frames)].i <= Len(calls.frames[Len(calls.frames)].entries)
    /\ calls' = walkEntry(fs, calls, normalizeExtensions(arg))
    /\ UNCHANGED <<fs, op, arg, out, lines, sections>>

\* The loop of the innermost call is over: it returns to its caller.
WalkReturn ==
    /\ op = "walking"
    /\ Len(calls.frames) > 0
    /\ calls.frames[Len(calls.frames)].i > Len(calls.frames[Len(calls.frames)].entries)
    /\ calls' = [calls EXCEPT !.frames = SubSeq(@, 1, Len(@) - 1)]
    /\ UNCHANGED <<fs, op, arg, out, lines, sections>>

\* walk(rootPath) has returned: return results.
WalkDone ==
    /\ op = "walking"
    /\ calls.frames = <<>>
    /\ op' = "done"
    /\ out' = Ok(calls.results)
    /\ UNCHANGED <<fs, arg, lines, sections, calls>>

NextWalk == WalkStart \/ WalkEntry \/ WalkReturn \/ WalkDone

\* Every await of the walk is of a listing that settles, so the walk goes on
\* while it has a step to take.
SpecWalk == InitWalk /\ [][NextWalk]_vars /\ WF_vars(NextWalk)

\* The directory has a link to itself or to a directory above it.
RECURSIVE IsAbove(_, _, _)
IsAbove(g, a, d) == d # 0 /\ (a = d \/ IsAbove(g, a, g.parent[d]))

HasCycle(g) == \E d \in DirIds : g.link[d] # 0 /\ IsAbove(g, g.link[d], d)

\* C30: listFilesRecursive terminates on every finite directory tree, with
\* links in it or not, and lists no directory more than once: at every
\* moment no directory appears twice among those readDirectory was called
\* on, and at some moment the walk has returned its results.
C30_TerminatesListingOnce ==
    [](NoDuplicates(calls.listed)) /\ <>(op = "done" /\ out.ok)

\* A walk that is over, of directories all listed, where the last one links
\* back to the root: every directory has been listed, once.
C30_Witness ==
    /\ op = "done"
    /\ fs.unlistable = 0
    /\ fs.link[MaxDirs] = 1
    /\ HasCycle(fs)
    /\ Len(calls.listed) = MaxDirs
    /\ Len(out.v) = MaxDirs

-----------------------------------------------------------------------------
(* list_* followed by get_* with a listed name (specification SpecListGet; *)
(* src/src/mcp/mcpServerProvider.ts).  Of a listed record its name, path   *)
(* and location are kept; description, type, globs, title and overview are *)
(* left out.                                                               *)

coreRuleToRuleInfo(r) == [name |-> stripRuleExt(r.fileName), path |-> r.path]

coreCommandToCommandInfo(c) == [name |-> c.fileName, path |-> c.path, location |-> c.location]

coreSkillToSkillInfo(sk) == [name |-> sk.fileName, path |-> sk.path, location |-> sk.location]

getRulesAsInfo(f) == [i \in 1..Len(getRules(f).v) |-> coreRuleToRuleInfo(getRules(f).v[i])]

getCommandsAsInfo(f) ==
    [i \in 1..Len(getCommands(f).v) |-> coreCommandToCommandInfo(getCommands(f).v[i])]

getSkillsAsInfo(f) == [i \in 1..Len(getSkills(f).v) |-> coreSkillToSkillInfo(getSkills(f).v[i])]

\* Rules directories with a rule of their own and one in a subdirectory.
ListGetRulesNodes ==
    { DirNode(Ok(<< Entry(F_a_mdc, FileType.File, FileNode(Ok(c1))),
                    Entry(D_sub, FileType.Directory,
                          DirNode(Ok(<< Entry(n2, FileType.File, FileNode(Ok(c2))) >>))) >>)) :
        c1 \in {T_plain, T_front}, c2 \in {T_plain, T_front, T_nodesc},
        n2 \in {F_a_mdc, <<"a", ".", "m", "d">>, F_B_MD, F_d_md} }

ListGetFamily ==
    { MkFs([Nothing EXCEPT !.rules = r]) : r \in ListGetRulesNodes }
    \cup { MkFs([Nothing EXCEPT !.commands = k, !.gcommands = g]) :
             k \in CommandsNodes, g \in GlobalCommandsNodes }
    \cup { MkFs([Nothing EXCEPT !.skills = k, !.gskills = g]) :
             k \in SkillsNodes, g \in GlobalSkillsNodes }

InitListGet ==
    /\ fs \in ListGetFamily
    /\ op = "none"
    /\ arg = <<>>
    /\ out = <<>>
    /\ lines = <<>>
    /\ sections = <<>>
    /\ calls = <<>>

\* list_rules, then get_rule with the name of the i-th record listed.
GetListedRule ==
    \E i \in 1..Len(getRulesAsInfo(fs)) :
        /\ op' = "get_rule"
        /\ arg' = [i |-> i, listed |-> getRulesAsInfo(fs)[i]]
        /\ out' = get_rule(fs, getRulesAsInfo(fs)[i].name)
        /\ UNCHANGED <<fs, lines, sections, calls>>

\* list_commands, then get_command with the name of the i-th record listed.
GetListedCommand ==
    /\ getCommands(fs).ok
    /\ \E i \in 1..Len(getCommandsAsInfo(fs)) :
        /\ op' = "get_command"
        /\ arg' = [i |-> i, listed |-> getCommandsAsInfo(fs)[i]]
        /\ out' = get_command(fs, getCommandsAsInfo(fs)[i].name)
        /\ UNCHANGED <<fs, lines, sections, calls>>

\* list_skills, then get_skill with the name of the i-th record listed.
GetListedSkill ==
    \E i \in 1..Len(getSkillsAsInfo(fs)) :
        /\ op' = "get_skill"
        /\ arg' = [i |-> i, listed |-> getSkillsAsInfo(fs)[i]]
        /\ out' = get_skill(fs, getSkillsAsInfo(fs)[i].name)
        /\ UNCHANGED <<fs, lines, sections, calls>>

NextListGet == GetListedRule \/ GetListedCommand \/ GetListedSkill

SpecListGet == InitListGet /\ [][NextListGet]_vars

\* C29: a record listed by list_rules, list_commands or list_skills is
\* fetched by the matching get_* under exactly its listed name, and what is
\* returned is the content of that record, the one at the listed path.
C29_ListedIsFetched ==
    op \in {"get_rule", "get_command", "get_skill"} =>
        /\ LookupRecords[arg.i].path = arg.listed.path
        /\ out.ok
        /\ out.v = LookupRecords[arg.i].content

\* The command X.MD is listed as X.MD and get_command("X.MD") finds nothing.
C29_UpperCaseCommand ==
    /\ op = "get_command"
    /\ arg.listed.name = F_X_MD
    /\ ~out.ok

\* x.md in the workspace and in the home directory: the global record is
\* listed as x, and get_command("x") answers with the workspace file.
C29_SharedCommandName ==
    /\ op = "get_command"
    /\ arg.listed.name = <<"x">>
    /\ arg.listed.location = "global"
    /\ out.ok
    /\ out.v # LookupRecords[arg.i].content
    /\ out.v = LookupRecords[1].content

\* a.mdc in the rules directory and in its subdirectory: both are listed as
\* a, and get_rule("a") answers with the same one for both.
C29_SharedRuleName ==
    /\ op = "get_rule"
    /\ arg.listed.name = <<"a">>
    /\ arg.listed.path = join(join(RulesDir, D_sub), F_a_mdc)
    /\ out.ok
    /\ out.v # LookupRecords[arg.i].content

\* Skills k1 in the workspace and in the home directory: get_skill("k1")
\* answers with the workspace one for the global record.
C29_SharedSkillName ==
    /\ op = "get_skill"
    /\ arg.listed.name = K_k1
    /\ arg.listed.location = "global"
    /\ out.ok
    /\ out.v # LookupRecords[arg.i].content

\* A rule with an upper-case extension, B.MD, is fetched under its listed name.
C29_UpperCaseRule ==
    /\ op = "get_rule"
    /\ arg.listed.name = F_B_MD
    /\ out.ok
    /\ out.v = LookupRecords[arg.i].content

-----------------------------------------------------------------------------
(* McpServerProvider and Cursor's registry (specification SpecRegistration; *)
(* src/src/mcp/mcpServerProvider.ts).  Here fs is the editor: whether it   *)
(* has Cursor's API (cursorMcp), the workspace folders by name, and the    *)
(* names registered with Cursor.  calls is the provider: its               *)
(* cursorServerNames, its event emitter, and whether an unregisterServer   *)
(* call of it has thrown so far.  A call of unregisterServer that throws   *)
(* leaves the name registered.  registerServer does not throw.             *)

MaxFolders == 2

FolderNames == { <<"a">>, <<"b">> }

RECURSIVE FolderListsOf(_)
FolderListsOf(n) ==
    IF n = 0 THEN {<<>>}
    ELSE FolderListsOf(n - 1)
         \cup { Append(l, x) : l \in { m \in FolderListsOf(n - 1) : Len(m) = n - 1 }, x \in FolderNames }

FolderLists == FolderListsOf(MaxFolders)

N_ace == <<"a", "c", "e">>

\* folders.length === 1 ? 'ace' : `ace-${folder.name}`
serverNameOf(folders, i) == IF Len(folders) = 1 THEN N_ace ELSE N_ace \o <<"-">> \o folders[i]

\* The loop over cursorServerNames that keeps every registration.
unregisterServers_Keep(registered, names, throwing) == registered

\* The loop over cursorServerNames: unregisterServer for each name, a throw
\* ignored; throwing are the names the call throws for.
unregisterServers(registered, names, throwing) ==
    registered \ ({ names[i] : i \in 1..Len(names) } \ throwing)

\* The names registered and pushed for the folders.
registerServers(folders) ==
    IF Len(folders) = 0 THEN <<N_ace>>
    ELSE [i \in 1..Len(folders) |-> serverNameOf(folders, i)]

\* syncCursorRegistration(): the editor and the provider after the call.
syncCursorRegistration(editor, provider, throwing) ==
    IF ~editor.cursor THEN [editor |-> editor, provider |-> provider]
    ELSE LET names == registerServers(editor.folders)
             kept == unregisterServers(editor.registered, provider.cursorServerNames, throwing)
         IN  [editor |-> [editor EXCEPT !.registered = kept \cup { names[i] : i \in 1..Len(names) }],
              provider |-> [provider EXCEPT
                              !.cursorServerNames = names,
                              !.threw = @ \/ (throwing \cap editor.registered # {})]]

\* dispose(): the editor and the provider after the call.
dispose(editor, provider, throwing) ==
    IF ~editor.cursor
    THEN [editor |-> editor, provider |-> [provider EXCEPT !.emitter = "disposed"]]
    ELSE [editor |-> [editor EXCEPT !.registered =
                        unregisterServers(@, provider.cursorServerNames, throwing)],
          provider |-> [provider EXCEPT
                          !.cursorServerNames = <<>>,
                          !.emitter = "disposed",
                          !.threw = @ \/ (throwing \cap editor.registered # {})]]

NamesOf(provider) == { provider.cursorServerNames[i] : i \in 1..Len(provider.cursorServerNames) }

InitRegistration ==
    /\ fs \in { [cursor |-> c, folders |-> l, registered |-> {}] : c \in BOOLEAN, l \in FolderLists }
    /\ calls = [cursorServerNames |-> <<>>, emitter |-> "live", threw |-> FALSE]
    /\ op = "none"
    /\ arg = <<>>
    /\ out = <<>>
    /\ lines = <<>>
    /\ sections = <<>>

SyncCursorRegistration ==
    /\ calls.emitter = "live"
    /\ \E throwing \in SUBSET NamesOf(calls) :
         LET r == syncCursorRegistration(fs, calls, throwing)
         IN  /\ fs' = r.editor
             /\ calls' = r.provider
             /\ arg' = throwing
    /\ op' = "syncCursorRegistration"
    /\ out' = <<>>
    /\ UNCHANGED <<lines, sections>>

\* refresh(): syncCursorRegistration, then the change event is fired.
Refresh ==
    /\ calls.emitter = "live"
    /\ \E throwing \in SUBSET NamesOf(calls) :
         LET r == syncCursorRegistration(fs, calls, throwing)
         IN  /\ fs' = r.editor
             /\ calls' = r.provider
             /\ arg' = throwing
    /\ op' = "refresh"
    /\ out' = <<"onDidChangeMcpServerDefinitions">>
    /\ UNCHANGED <<lines, sections>>

Dispose ==
    /\ calls.emitter = "live"
    /\ \E throwing \in SUBSET NamesOf(calls) :
         LET r == dispose(fs, calls, throwing)
         IN  /\ fs' = r.editor
             /\ calls' = r.provider
             /\ arg' = throwing
    /\ op' = "dispose"
    /\ out' = calls.cursorServerNames
    /\ UNCHANGED <<lines, sections>>

\* The user adds, removes or reorders workspace folders.
WorkspaceFoldersChange ==
    /\ calls.emitter = "live"
    /\ \E l \in FolderLists \ {fs.folders} : fs' = [fs EXCEPT !.folders = l]
    /\ op' = "workspaceFolders"
    /\ arg' = <<>>
    /\ out' = <<>>
    /\ UNCHANGED <<calls, lines, sections>>

NextRegistration == SyncCursorRegistration \/ Refresh \/ Dispose \/ WorkspaceFoldersChange

SpecRegistration == InitRegistration /\ [][NextRegistration]_vars

\* The names the claim derives from the folders.
DerivedNames ==
    IF Len(fs.folders) <= 1 THEN {N_ace}
    ELSE { N_ace \o <<"-">> \o fs.folders[i] : i \in 1..Len(fs.folders) }

\* C24: right after a syncCursorRegistration() or refresh() in Cursor, with
\* no unregisterServer call having thrown so far, the names registered with
\* Cursor are those of cursorServerNames and are exactly the names derived
\* from the current folders, whatever was registered before.
C24_RegisteredIsDerived ==
    (op \in {"syncCursorRegistration", "refresh"} /\ fs.cursor /\ ~calls.threw) =>
        /\ fs.registered = NamesOf(calls)
        /\ fs.registered = DerivedNames

\* A refresh after the folders went from a and b to b alone: ace is
\* registered and ace-a, ace-b are not.
C24_Witness ==
    /\ op = "refresh"
    /\ fs.cursor
    /\ ~calls.threw
    /\ fs.folders = << <<"b">> >>
    /\ fs.registered = {N_ace}
    /\ calls.cursorServerNames = <<N_ace>>

\* C26: right after dispose() nothing the provider registered is registered
\* any more and cursorServerNames is empty, also when unregisterServer threw.
C26_NothingLeftRegistered ==
    op = "dispose" =>
        /\ fs.registered = {}
        /\ calls.cursorServerNames = <<>>

\* C26, what does hold: after dispose() cursorServerNames is empty, and when
\* no unregisterServer call has thrown nothing is registered any more.
C26_NothingLeftUnlessThrown ==
    op = "dispose" =>
        /\ calls.cursorServerNames = <<>>
        /\ ~calls.threw => fs.registered = {}

\* dispose() with ace-a and ace-b registered, no call having thrown; out is
\* what cursorServerNames was when dispose() was called.
C26_Witness ==
    /\ op = "dispose"
    /\ fs.cursor
    /\ ~calls.threw
    /\ out = <<N_ace \o <<"-", "a">>, N_ace \o <<"-", "b">> >>
    /\ fs.registered = {}
    /\ calls.cursorServerNames = <<>>

\* unregisterServer('ace') throws in dispose(): ace stays registered and is
\* no longer among cursorServerNames.
C26_LeftRegistered ==
    /\ op = "dispose"
    /\ out = <<N_ace>>
    /\ arg = {N_ace}
    /\ fs.registered = {N_ace}
    /\ calls.cursorServerNames = <<>>

-----------------------------------------------------------------------------
(* The extension: activation, ensureDataLoaded, refreshData and the file   *)
(* watchers (specification SpecExtension; src/src/mcp/resources.ts).       *)
(*   fs        the workspace, as the number of its current content         *)
(*   lines     the module's variables isActivated, watchersInitialized,    *)
(*             extensionContext (0: undefined; else the activation's)      *)
(*   out       the tree provider: isLoading, isDataLoaded, the data        *)
(*             installed, and for the claims the invocation that           *)
(*             installed it (by) and the latest-started one that ever      *)
(*             installed (latest)                                          *)
(*   calls     the refreshData invocations in flight, in order of start:   *)
(*             number n, caller, place pc, the content it has scanned      *)
(*   sections  the host: activations so far, invocations started so far,   *)
(*             how often watchers were registered with each context, and   *)
(*             whether an ensureDataLoaded() has completed in the current  *)
(*             activation                                                  *)
(* The scans of one invocation read the workspace in one step.             *)

MaxRefreshes == 3
MaxActivations == 2

\* new ProjectTreeProvider(new Map(), [], null, ...)
NewTreeProvider == [isLoading |-> FALSE, isDataLoaded |-> FALSE, data |-> 0, by |-> 0, latest |-> 0]

\* ProjectTreeProvider.setLoading
setLoading(tp, loading) == [tp EXCEPT !.isLoading = loading]

\* ProjectTreeProvider.setDataLoaded
setDataLoaded(tp, loaded) == [tp EXCEPT !.isDataLoaded = loaded]

\* ProjectTreeProvider.updateData
updateData(tp, projectData) == [tp EXCEPT !.data = projectData]

\* refreshData up to its first await.
refreshDataEnter(tp) == setLoading(tp, TRUE)

\* The end of refreshData's try block for invocation c.
refreshDataSucceed(tp, c) ==
    setLoading(setDataLoaded(
      [updateData(tp, c.data) EXCEPT !.by = c.n, !.latest = IF c.n > @ THEN c.n ELSE @],
      TRUE), FALSE)

\* refreshData's catch block.
refreshDataCatch(tp) == setLoading(tp, FALSE)

\* ensureDataLoaded after await refreshData(): the module's variables and
\* the registrations by context.
ensureDataLoadedRest(module, watchers) ==
    IF module.extensionContext = 0 \/ module.watchersInitialized
    THEN [module |-> module, watchers |-> watchers]
    ELSE [module |-> [module EXCEPT !.watchersInitialized = TRUE],
          watchers |-> [watchers EXCEPT ![module.extensionContext] = @ + 1]]

\* deactivate(): the module's variables after it.
deactivate(module) == [module EXCEPT !.isActivated = FALSE]

Remove(seq, k) == SubSeq(seq, 1, k - 1) \o SubSeq(seq, k + 1, Len(seq))

InProgress == { k \in 1..Len(calls) : calls[k].pc \in {"scanning", "scanned"} }

InitExtension ==
    /\ fs = 1
    /\ lines = [isActivated |-> FALSE, watchersInitialized |-> FALSE, extensionContext |-> 0]
    /\ out = <<>>
    /\ calls = <<>>
    /\ sections = [activations |-> 0, started |-> 0,
                   watchers |-> [c \in 1..MaxActivations |-> 0], completed |-> FALSE]
    /\ op = "none"
    /\ arg = <<>>

Activate ==
    /\ ~lines.isActivated
    /\ sections.activations < MaxActivations
    /\ lines' = [lines EXCEPT !.isActivated = TRUE, !.extensionContext = sections.activations + 1]
    /\ out' = NewTreeProvider
    /\ sections' = [sections EXCEPT !.activations = @ + 1, !.completed = FALSE]
    /\ op' = "activate"
    /\ UNCHANGED <<fs, arg, calls>>

Deactivate ==
    /\ lines.isActivated
    /\ lines' = deactivate(lines)
    /\ op' = "deactivate"
    /\ UNCHANGED <<fs, arg, out, calls, sections>>

\* refreshData() is called: it runs up to its first await.
StartRefresh(caller) ==
    /\ sections.started < MaxRefreshes
    /\ calls' = Append(calls, [n |-> sections.started + 1, caller |-> caller,
                               pc |-> "scanning", data |-> 0])
    /\ out' = refreshDataEnter(out)
    /\ sections' = [sections EXCEPT !.started = @ + 1]
    /\ arg' = sections.started + 1

\* The tree view asks for data, or ace.refresh is run.
EnsureDataLoaded ==
    /\ lines.isActivated
    /\ StartRefresh("ensureDataLoaded")
    /\ op' = "ensureDataLoaded"
    /\ UNCHANGED <<fs, lines>>

\* A watched file changes: the handler calls refreshData() and returns.
WatcherEvent ==
    /\ lines.isActivated
    /\ sections.watchers[lines.extensionContext] > 0
    /\ StartRefresh("watcher")
    /\ fs' = fs + 1
    /\ op' = "watcher"
    /\ UNCHANGED lines

\* The scans of an invocation read the workspace.
Scan ==
    \E k \in 1..Len(calls) :
        /\ calls[k].pc = "scanning"
        /\ calls' = [calls EXCEPT ![k].pc = "scanned", ![k].data = fs]
        /\ op' = "scan"
        /\ arg' = calls[k].n
        /\ UNCHANGED <<fs, lines, out, sections>>

\* What is left of the invocation when refreshData has returned.
Returned(k) ==
    IF calls[k].caller = "watcher" THEN Remove(calls, k)
    ELSE [calls EXCEPT ![k].pc = "returned"]

RefreshSucceeds ==
    \E k \in 1..Len(calls) :
        /\ calls[k].pc = "scanned"
        /\ out' = refreshDataSucceed(out, calls[k])
        /\ calls' = Returned(k)
        /\ op' = "refreshed"
        /\ arg' = calls[k].n
        /\ UNCHANGED <<fs, lines, sections>>

\* A scan or the project list throws: the catch block.
RefreshFails ==
    \E k \in InProgress :
        /\ out' = refreshDataCatch(out)
        /\ calls' = Returned(k)
        /\ op' = "refreshFailed"
        /\ arg' = calls[k].n
        /\ UNCHANGED <<fs, lines, sections>>

\* ensureDataLoaded goes on after await refreshData() and completes.
EnsureDataLoadedCompletes ==
    \E k \in 1..Len(calls) :
        /\ calls[k].pc = "returned"
        /\ LET r == ensureDataLoadedRest(lines, sections.watchers)
           IN  /\ lines' = r.module
               /\ sections' = [sections EXCEPT !.watchers = r.watchers,
                                               !.completed = @ \/ lines.isActivated]
        /\ calls' = Remove(calls, k)
        /\ op' = "ensureDataLoaded completed"
        /\ arg' = calls[k].n
        /\ UNCHANGED <<fs, out>>

NextExtension ==
    \/ Activate
    \/ Deactivate
    \/ EnsureDataLoaded
    \/ WatcherEvent
    \/ Scan
    \/ RefreshSucceeds
    \/ RefreshFails
    \/ EnsureDataLoadedCompletes

SpecExtension == InitExtension /\ [][NextExtension]_vars

\* C25: the data in the tree provider is that of the latest-started
\* invocation that has installed any: an earlier-started one never
\* overwrites what a later-started one installed.
C25_LastStartedWins ==
    sections.activations > 0 => out.by = out.latest

\* Invocation 1 scanned the workspace before the change, invocation 2 after
\* it; 2 installed its data, then 1 did: the tree shows the old content.
C25_StaleData ==
    /\ sections.activations = 1
    /\ calls = <<>>
    /\ out.latest = 2
    /\ out.by = 1
    /\ out.data < fs

\* C27: isLoading is true exactly while a refreshData invocation is in
\* progress.
C27_LoadingWhileInProgress ==
    sections.activations > 0 => (out.isLoading <=> InProgress # {})

\* C27, what does hold: isLoading is false whenever no refreshData
\* invocation is in progress.
C27_NotLoadingWhenIdle ==
    (sections.activations > 0 /\ InProgress = {}) => ~out.isLoading

\* One invocation has returned and reset the flag, another is still scanning.
C27_NotLoadingInProgress ==
    /\ sections.activations = 1
    /\ InProgress # {}
    /\ ~out.isLoading

\* A refresh has finished, nothing is in progress and the flag is down.
C27_Witness ==
    /\ sections.activations = 1
    /\ op = "refreshed"
    /\ InProgress = {}
    /\ out.isDataLoaded
    /\ ~out.isLoading

\* C28: in every activation, once an ensureDataLoaded() has completed the
\* watchers are registered with the activation's context, and with no
\* context are they registered more than once.
C28_WatchersEveryActivation ==
    /\ (lines.isActivated /\ sections.completed) => sections.watchers[lines.extensionContext] = 1
    /\ \A c \in 1..MaxActivations : sections.watchers[c] <= 1

\* C28, what does hold: in the first activation the first ensureDataLoaded()
\* that completes registers the watchers with its context, and with no
\* context are they registered more than once, however the calls interleave.
C28_WatchersFirstActivation ==
    /\ (lines.isActivated /\ sections.completed /\ sections.activations = 1)
         => sections.watchers[1] = 1
    /\ \A c \in 1..MaxActivations : sections.watchers[c] <= 1

\* Two ensureDataLoaded() calls of the first activation have completed:
\* the watchers are registered once.
C28_Witness ==
    /\ lines.isActivated
    /\ sections.activations = 1
    /\ sections.started >= 2
    /\ calls = <<>>
    /\ op = "ensureDataLoaded completed"
    /\ sections.watchers[1] = 1

\* After deactivate() and a second activate(), an ensureDataLoaded() has
\* completed and no watcher is registered with the new context.
C28_NoWatchersAfterReactivation ==
    /\ lines.isActivated
    /\ sections.activations = 2
    /\ sections.completed
    /\ lines.extensionContext = 2
    /\ sections.watchers[2] = 0

====
